---- MODULE Spec2Model ----
(***************************************************************************)
(* Calibration core of the NanoVNA-UTN-Toolkit:                            *)
(*   ui/calibration/methods.py   (class Methods, the four correctors)      *)
(*   ui/graphics_window.py       (NanoVNAGraphics.run_sweep, the dispatch) *)
(* and the dialog that prepares a PDF export:                              *)
(*   ui/export/latex_export_dialog.py   (class LaTeXExportDialog)          *)
(*                                                                         *)
(* Complex samples are exact Gaussian rationals <<a, b, d>> = (a + b j)/d, *)
(* d > 0, in lowest terms; a division by zero gives the non-finite value   *)
(* <<0, 0, 0>> (numpy's inf/nan), which every later operation propagates.  *)
(* numpy arrays are sequences; element-wise operators broadcast as numpy   *)
(* does for 1-D shapes and raise ValueError otherwise.                     *)
(***************************************************************************)
EXTENDS Integers, Sequences, FiniteSets, TLC

\* Longest vector (sweep points, points of an error-term file) explored.
MaxLen == 3

----------------------------------------------------------------------------
\* Complex arithmetic (numpy complex128, taken exactly)

Abs(n) == IF n < 0 THEN -n ELSE n

RECURSIVE GCD(_, _)
GCD(a, b) == IF b = 0 THEN a ELSE GCD(b, a % b)

NonFinite == <<0, 0, 0>>

IsFinite(x) == x[3] # 0

\* (a + b j)/d in lowest terms with a positive denominator
CNorm(a, b, d) ==
    IF d = 0 THEN NonFinite
    ELSE LET g == GCD(GCD(Abs(a), Abs(b)), Abs(d))
             s == IF d < 0 THEN -1 ELSE 1
         IN  <<(s * a) \div g, (s * b) \div g, (s * d) \div g>>

CZero == <<0, 0, 1>>
COne  == <<1, 0, 1>>

CSub(x, y) ==
    IF ~IsFinite(x) \/ ~IsFinite(y) THEN NonFinite
    ELSE CNorm(x[1] * y[3] - y[1] * x[3], x[2] * y[3] - y[2] * x[3], x[3] * y[3])

CMul(x, y) ==
    IF ~IsFinite(x) \/ ~IsFinite(y) THEN NonFinite
    ELSE CNorm(x[1] * y[1] - x[2] * y[2], x[1] * y[2] + x[2] * y[1], x[3] * y[3])

\* x / y = x * conj(y) / |y|^2 ; a zero divisor gives inf/nan, no exception
CDiv(x, y) ==
    IF ~IsFinite(x) \/ ~IsFinite(y) THEN NonFinite
    ELSE LET m == y[1] * y[1] + y[2] * y[2]
         IN  IF m = 0 THEN NonFinite
             ELSE CNorm(y[3] * (x[1] * y[1] + x[2] * y[2]),
                        y[3] * (x[2] * y[1] - x[1] * y[2]),
                        x[3] * m)

----------------------------------------------------------------------------
\* numpy 1-D arrays.  An array expression is [ok, v]: ok = FALSE stands for
\* the ValueError "operands could not be broadcast together".

Min(a, b) == IF a < b THEN a ELSE b

Arr(v) == [ok |-> TRUE, v |-> v]

ShapeError == [ok |-> FALSE, v |-> <<>>]

\* The last n values in place of the first n
Take_last(a, n) == SubSeq(a, Len(a) - Min(n, Len(a)) + 1, Len(a))

\* a[:n]
Take(a, n) == SubSeq(a, 1, Min(n, Len(a)))

Broadcastable(a, b) == Len(a) = Len(b) \/ Len(a) = 1 \/ Len(b) = 1

BroadcastLen(a, b) == IF Len(a) = 1 THEN Len(b) ELSE Len(a)

At(a, i) == IF Len(a) = 1 THEN a[1] ELSE a[i]

VSub(x, y) ==
    IF ~x.ok \/ ~y.ok \/ ~Broadcastable(x.v, y.v) THEN ShapeError
    ELSE Arr([i \in 1..BroadcastLen(x.v, y.v) |-> CSub(At(x.v, i), At(y.v, i))])

VMul(x, y) ==
    IF ~x.ok \/ ~y.ok \/ ~Broadcastable(x.v, y.v) THEN ShapeError
    ELSE Arr([i \in 1..BroadcastLen(x.v, y.v) |-> CMul(At(x.v, i), At(y.v, i))])

VDiv(x, y) ==
    IF ~x.ok \/ ~y.ok \/ ~Broadcastable(x.v, y.v) THEN ShapeError
    ELSE Arr([i \in 1..BroadcastLen(x.v, y.v) |-> CDiv(At(x.v, i), At(y.v, i))])

\* The tail left at the zeros of np.zeros
PadWithOriginal_zeros(cal, orig, n) ==
    [i \in 1..n |-> IF i <= Len(cal) THEN cal[i] ELSE CZero]

\* result = np.zeros(n); result[:len(cal)] = cal; result[len(cal):] = orig[len(cal):]
PadWithOriginal(cal, orig, n) ==
    [i \in 1..n |-> IF i <= Len(cal) THEN cal[i] ELSE orig[i]]

----------------------------------------------------------------------------
\* Error-term files.  A path is <<calibration directory, subfolder, file>>;
\* a Touchstone network is [present, s11, s21]: s11 is the column s[:,0,0],
\* s21 the column s[:,1,0] (empty in a one-port .s1p file).

OsmResults  == <<"Calibration", "osm_results">>
ThruResults == <<"Calibration", "thru_results">>
KitsDir     == <<"Calibration", "kits">>

CalDirs == {OsmResults, ThruResults}

OsmFiles(dir) ==
    << <<dir, "osm_errors", "directivity.s1p">>,
       <<dir, "osm_errors", "reflection_tracking.s1p">>,
       <<dir, "osm_errors", "source_match.s1p">> >>

NormalizationFile(dir) == <<dir, "normalization_errors", "transmission_tracking.s2p">>

OnePortNFile(dir) == <<dir, "1-Port-N_errors", "transmission_tracking.s2p">>

\* load_match.s2p not read
EnhancedFiles_without_load_match(dir) ==
    << <<dir, "enhanced_response_errors", "directivity.s1p">>,
       <<dir, "enhanced_response_errors", "reflection_tracking.s1p">>,
       <<dir, "enhanced_response_errors", "source_match.s1p">>,
       <<dir, "enhanced_response_errors", "transmission_tracking.s2p">> >>

EnhancedFiles(dir) ==
    << <<dir, "enhanced_response_errors", "directivity.s1p">>,
       <<dir, "enhanced_response_errors", "reflection_tracking.s1p">>,
       <<dir, "enhanced_response_errors", "source_match.s1p">>,
       <<dir, "enhanced_response_errors", "transmission_tracking.s2p">>,
       <<dir, "enhanced_response_errors", "load_match.s2p">> >>

Range(sq) == {sq[i] : i \in 1..Len(sq)}

\* The files the calibration wizard stores (spec section 4.1): the OSM terms
\* under osm_results, the THRU-based terms under thru_results.
FileIds ==
    Range(OsmFiles(OsmResults)) \cup {NormalizationFile(ThruResults), OnePortNFile(ThruResults)}
        \cup Range(EnhancedFiles(ThruResults))

AbsentNet == [present |-> FALSE, s11 |-> <<>>, s21 |-> <<>>]

\* rf.Network(path): the stored network, or no file
Lookup(fsys, path) == IF path \in DOMAIN fsys THEN fsys[path] ELSE AbsentNet

\* The paths opened by reading `paths` in order: reading stops at the first
\* absent file, where rf.Network raises.
RECURSIVE Opened(_, _)
Opened(fsys, paths) ==
    IF paths = <<>> THEN {}
    ELSE IF ~Lookup(fsys, Head(paths)).present THEN {Head(paths)}
         ELSE {Head(paths)} \cup Opened(fsys, Tail(paths))

AllPresent(fsys, paths) == \A i \in 1..Len(paths) : Lookup(fsys, paths[i]).present

\* Outcome of a correction call: the returned arrays, or the exception raised;
\* `read` are the files opened, `warn` whether a size-mismatch warning was logged.
Return(s11, s21, read, warn) ==
    [ok |-> TRUE, err |-> "", s11 |-> s11, s21 |-> s21, read |-> read, warn |-> warn]

Raise(err, read, warn) ==
    [ok |-> FALSE, err |-> err, s11 |-> <<>>, s21 |-> <<>>, read |-> read, warn |-> warn]

----------------------------------------------------------------------------
\* class Methods

\* delta_e with the sign of reflection_tracking flipped
OsmFormula_delta_sign(s11_med, directivity, reflection_tracking, source_match) ==
    LET delta_e == VSub(VMul(source_match, directivity),
                        VSub(VSub(reflection_tracking, reflection_tracking), reflection_tracking))
    IN  VDiv(VSub(s11_med, directivity), VSub(VMul(s11_med, source_match), delta_e))

\* delta_e added in the denominator
OsmFormula_adds_delta(s11_med, directivity, reflection_tracking, source_match) ==
    LET delta_e == VSub(VMul(source_match, directivity), reflection_tracking)
    IN  VDiv(VSub(s11_med, directivity),
             VSub(VMul(s11_med, source_match), VSub(VSub(delta_e, delta_e), delta_e)))

\* delta_e = source_match * directivity - reflection_tracking
\* s11_cal = (s11_med - directivity) / (s11_med * source_match - delta_e)
OsmFormula(s11_med, directivity, reflection_tracking, source_match) ==
    LET delta_e == VSub(VMul(source_match, directivity), reflection_tracking)
    IN  VDiv(VSub(s11_med, directivity), VSub(VMul(s11_med, source_match), delta_e))

\* A product in place of the quotient
NormalizationFormula_product(s21_med, transmission_tracking) ==
    VMul(s21_med, transmission_tracking)

\* s21_cal = s21_med / transmission_tracking
NormalizationFormula(s21_med, transmission_tracking) == VDiv(s21_med, transmission_tracking)

\* The corrected S11 in the denominator of the second factor
EnhancedS21Formula_corrected_s11(s21_med, s11_med, directivity, reflection_tracking, source_match, transmission_tracking) ==
    LET delta_e == VSub(VMul(source_match, directivity), reflection_tracking)
        s11_cal == VDiv(VSub(s11_med, directivity), VSub(VMul(s11_med, source_match), delta_e))
    IN  VMul(VDiv(s21_med, transmission_tracking),
             VDiv(reflection_tracking, VSub(VMul(source_match, s11_cal), delta_e)))

\* s21_cal = (s21_med / transmission_tracking)
\*             * (reflection_tracking / (source_match * s11_med - delta_e))
EnhancedS21Formula(s21_med, s11_med, directivity, reflection_tracking, source_match, transmission_tracking) ==
    LET delta_e == VSub(VMul(source_match, directivity), reflection_tracking)
    IN  VMul(VDiv(s21_med, transmission_tracking),
             VDiv(reflection_tracking, VSub(VMul(source_match, s11_med), delta_e)))

\* The test always taken, and one point too few kept
Reconcile_always_shortens(v, cal_points, sweep_points) ==
    Take(v, Min(cal_points, sweep_points) - 1)

\* if cal_points != sweep_points: v = v[:min(cal_points, sweep_points)]
Reconcile(v, cal_points, sweep_points) ==
    IF cal_points # sweep_points THEN Take(v, Min(cal_points, sweep_points)) ELSE v

\* The four vectors of osm_calibrate_s11 as they enter the OSM formula, the
\* three files being stored; cal_points is the length of directivity.
OsmFormulaInputs(fsys, calibration_dir, s11_med) ==
    LET paths == OsmFiles(calibration_dir)
        directivity         == Lookup(fsys, paths[1]).s11
        reflection_tracking == Lookup(fsys, paths[2]).s11
        source_match        == Lookup(fsys, paths[3]).s11
        cal_points   == Len(directivity)
        sweep_points == Len(s11_med)
    IN  [s11_med             |-> Reconcile(s11_med, cal_points, sweep_points),
         directivity         |-> Reconcile(directivity, cal_points, sweep_points),
         reflection_tracking |-> Reconcile(reflection_tracking, cal_points, sweep_points),
         source_match        |-> Reconcile(source_match, cal_points, sweep_points),
         mismatch            |-> cal_points # sweep_points]

\* The formula on the reconciled vectors t, then the padding back to the
\* sweep's length from the copy of the raw vector
OsmCorrect(t, original_s11_med, read) ==
    LET sweep_points == Len(original_s11_med)
        s11_cal == OsmFormula(Arr(t.s11_med), Arr(t.directivity),
                              Arr(t.reflection_tracking), Arr(t.source_match))
    IN  IF ~s11_cal.ok THEN Raise("ValueError", read, t.mismatch)
        ELSE IF Len(s11_cal.v) < sweep_points
             THEN Return(PadWithOriginal(s11_cal.v, original_s11_med, sweep_points),
                         <<>>, read, t.mismatch)
             ELSE Return(s11_cal.v, <<>>, read, t.mismatch)

osm_calibrate_s11(fsys, calibration_dir, s11_med) ==
    IF ~AllPresent(fsys, OsmFiles(calibration_dir))
    THEN Raise("FileNotFoundError", Opened(fsys, OsmFiles(calibration_dir)), FALSE)
    ELSE OsmCorrect(OsmFormulaInputs(fsys, calibration_dir, s11_med), s11_med,
                    Opened(fsys, OsmFiles(calibration_dir)))

normalization_calibrate_s21(fsys, calibration_dir, s21_med) ==
    LET paths == <<NormalizationFile(calibration_dir)>>
        read  == Opened(fsys, paths)
    IN  IF ~AllPresent(fsys, paths) THEN Raise("FileNotFoundError", read, FALSE)
        ELSE
        LET transmission_tracking0 == Lookup(fsys, paths[1]).s21
            cal_points   == Len(transmission_tracking0)
            sweep_points == Len(s21_med)
            original_s21_med == s21_med
            mismatch   == cal_points # sweep_points
            s21_t == Reconcile(s21_med, cal_points, sweep_points)
            transmission_tracking == Reconcile(transmission_tracking0, cal_points, sweep_points)
            s21_cal == NormalizationFormula(Arr(s21_t), Arr(transmission_tracking))
        IN  IF ~s21_cal.ok THEN Raise("ValueError", read, mismatch)
            ELSE IF Len(s21_cal.v) < sweep_points
                 THEN Return(<<>>, PadWithOriginal(s21_cal.v, original_s21_med, sweep_points),
                             read, mismatch)
                 ELSE Return(<<>>, s21_cal.v, read, mismatch)

\* S21 multiplied by the corrected S11
one_port_n_calibrate_s21_times_s11(fsys, s11_med, s21_med, osm_dir, thru_dir) ==
    LET paths == OsmFiles(osm_dir) \o <<OnePortNFile(thru_dir)>>
        read  == Opened(fsys, paths)
    IN  IF ~AllPresent(fsys, paths) THEN Raise("FileNotFoundError", read, FALSE)
        ELSE
        LET s11_cal == OsmFormula(Arr(s11_med), Arr(Lookup(fsys, paths[1]).s11),
                                  Arr(Lookup(fsys, paths[2]).s11),
                                  Arr(Lookup(fsys, paths[3]).s11))
            s21_cal == VMul(NormalizationFormula(Arr(s21_med), Arr(Lookup(fsys, paths[4]).s21)),
                            s11_cal)
        IN  IF ~s11_cal.ok \/ ~s21_cal.ok THEN Raise("ValueError", read, FALSE)
            ELSE Return(s11_cal.v, s21_cal.v, read, FALSE)

\* S11 is computed before the THRU file is opened; an exception at any point
\* leaves the call without a return value.
one_port_n_calibrate(fsys, s11_med, s21_med, osm_dir, thru_dir) ==
    LET osm_paths == OsmFiles(osm_dir)
        paths == osm_paths \o <<OnePortNFile(thru_dir)>>
        read_osm == Opened(fsys, osm_paths)
        read     == Opened(fsys, paths)
    IN  IF ~AllPresent(fsys, osm_paths) THEN Raise("FileNotFoundError", read_osm, FALSE)
        ELSE
        LET directivity         == Arr(Lookup(fsys, paths[1]).s11)
            reflection_tracking == Arr(Lookup(fsys, paths[2]).s11)
            source_match        == Arr(Lookup(fsys, paths[3]).s11)
            s11_cal == OsmFormula(Arr(s11_med), directivity, reflection_tracking, source_match)
        IN  IF ~s11_cal.ok THEN Raise("ValueError", read_osm, FALSE)
            ELSE IF ~AllPresent(fsys, paths) THEN Raise("FileNotFoundError", read, FALSE)
            ELSE
            LET transmission_tracking == Arr(Lookup(fsys, paths[4]).s21)
                s21_cal == NormalizationFormula(Arr(s21_med), transmission_tracking)
            IN  IF ~s21_cal.ok THEN Raise("ValueError", read, FALSE)
                ELSE Return(s11_cal.v, s21_cal.v, read, FALSE)

\* Every file, load_match.s2p included, is read from thru_dir; osm_dir is unused.
enhanced_response_calibrate(fsys, s11_med, s21_med, osm_dir, thru_dir) ==
    LET paths == EnhancedFiles(thru_dir)
        osm_paths == SubSeq(paths, 1, 3)
        read_osm == Opened(fsys, osm_paths)
        read     == Opened(fsys, paths)
    IN  IF ~AllPresent(fsys, osm_paths) THEN Raise("FileNotFoundError", read_osm, FALSE)
        ELSE
        LET directivity         == Arr(Lookup(fsys, paths[1]).s11)
            reflection_tracking == Arr(Lookup(fsys, paths[2]).s11)
            source_match        == Arr(Lookup(fsys, paths[3]).s11)
            s11_cal == OsmFormula(Arr(s11_med), directivity, reflection_tracking, source_match)
        IN  IF ~s11_cal.ok THEN Raise("ValueError", read_osm, FALSE)
            ELSE IF ~AllPresent(fsys, paths) THEN Raise("FileNotFoundError", read, FALSE)
            ELSE
            LET transmission_tracking == Arr(Lookup(fsys, paths[4]).s21)
                load_match == Arr(Lookup(fsys, paths[5]).s11)
                s21_cal == EnhancedS21Formula(Arr(s21_med), Arr(s11_med), directivity,
                                              reflection_tracking, source_match,
                                              transmission_tracking)
            IN  IF ~s21_cal.ok THEN Raise("ValueError", read, FALSE)
                ELSE Return(s11_cal.v, s21_cal.v, read, FALSE)

----------------------------------------------------------------------------
\* Stored data explored.  Every vector has index-dependent entries, so that a
\* misaligned, truncated or swapped use shows in the result.

\* Sample i of the column a generic stored network holds
GenericValue(path, col, i) ==
    CASE path[3] = "directivity.s1p" ->
           IF path[2] = "osm_errors" THEN CNorm(i, 0, 4) ELSE CNorm(0, i, 2)
      [] path[3] = "reflection_tracking.s1p" ->
           IF path[2] = "osm_errors" THEN CNorm(2, i, 2) ELSE CNorm(i + 1, 0, 1)
      [] path[3] = "source_match.s1p" ->
           IF path[2] = "osm_errors" THEN CNorm(0, i, 4) ELSE CNorm(1, 0, 2)
      [] path[3] = "load_match.s2p" ->
           IF col = "s11" THEN CNorm(1, i, 6) ELSE CNorm(i, 2, 6)
      [] OTHER -> \* transmission_tracking.s2p
           IF col = "s11" THEN CNorm(i, 1, 7)
           ELSE IF path[2] = "normalization_errors" THEN CNorm(i + 2, 0, 2)
           ELSE IF path[2] = "1-Port-N_errors" THEN CNorm(0, i + 1, 2)
           ELSE CNorm(0, i + 1, 1)

\* Sample of an ideal network: directivity = source match = load match = 0,
\* reflection tracking = transmission tracking = 1
IdealValue(path, col, i) ==
    IF path[3] \in {"reflection_tracking.s1p", "transmission_tracking.s2p"} /\
       (path[3] = "transmission_tracking.s2p" => col = "s21")
    THEN COne ELSE CZero

IsTwoPort(path) == path[3] \in {"transmission_tracking.s2p", "load_match.s2p"}

StoredNet(path, kind, n) ==
    [present |-> TRUE,
     s11 |-> [i \in 1..n |-> IF kind = "ideal" THEN IdealValue(path, "s11", i)
                              ELSE GenericValue(path, "s11", i)],
     s21 |-> IF IsTwoPort(path)
             THEN [i \in 1..n |-> IF kind = "ideal" THEN IdealValue(path, "s21", i)
                                  ELSE GenericValue(path, "s21", i)]
             ELSE <<>>]

Kinds == {"generic", "ideal"}

\* File systems explored: nothing stored yet, or every file stored with the
\* same number of points, except at most one file that is missing or was
\* stored with another number of points.
FileSystems ==
    {[p \in FileIds |-> AbsentNet]} \cup
    {[p \in FileIds |-> IF p = dev
                        THEN (IF devLen < 0 THEN AbsentNet ELSE StoredNet(p, kind, devLen))
                        ELSE StoredNet(p, kind, n)] :
        kind \in Kinds, n \in 1..MaxLen, dev \in FileIds, devLen \in -1..MaxLen}

\* Raw vectors a caller passes
RawValue(kind, i) == IF kind = "a" THEN CNorm(i, 1, 1) ELSE CNorm(1, 0 - i, 2)

RawKinds == {"a", "b"}

RawVector(kind, n) == [i \in 1..n |-> RawValue(kind, i)]

RawVectors == {RawVector(k, n) : k \in RawKinds, n \in 0..MaxLen}

----------------------------------------------------------------------------
\* NanoVNAGraphics.run_sweep: the calibration dispatch

MethodNames == {"OSM (Open - Short - Match)", "Normalization", "1-Port+N", "Enhanced-Response"}

\* kit_name = kit_name.rsplit("_", 1)[0] if "_" in kit_name; a name is kept
\* as the sequence of its "_"-separated parts
KitNameOf(name) == IF Len(name) > 1 THEN SubSeq(name, 1, Len(name) - 1) ELSE name

\* KitsCalibrator.kits_selected (ui/calibration/kits.py): the corrector that
\* matches the method, on the error terms stored for the kit; an unknown method
\* name passes the raw arrays through.
kits_selected(fsys, selected_kit_dir, calibration_method, kit_name, s11_med, s21_med) ==
    LET kit_dir == selected_kit_dir \o kit_name
    IN  CASE calibration_method = "OSM (Open - Short - Match)" ->
               LET r == osm_calibrate_s11(fsys, kit_dir, s11_med)
               IN  IF r.ok THEN Return(r.s11, s21_med, r.read, r.warn) ELSE r
          [] calibration_method = "Normalization" ->
               LET r == normalization_calibrate_s21(fsys, kit_dir, s21_med)
               IN  IF r.ok THEN Return(s11_med, r.s21, r.read, r.warn) ELSE r
          [] calibration_method = "1-Port+N" ->
               one_port_n_calibrate(fsys, s11_med, s21_med, kit_dir, kit_dir)
          [] calibration_method = "Enhanced-Response" ->
               enhanced_response_calibrate(fsys, s11_med, s21_med, kit_dir, kit_dir)
          [] OTHER -> Return(s11_med, s21_med, {}, FALSE)

\* The method name ignored: always the OSM correction
WizardDispatch_always_osm(fsys, calibration_method, s11_med, s21_med) ==
    LET r == osm_calibrate_s11(fsys, OsmResults, s11_med)
    IN  IF r.ok THEN Return(r.s11, s21_med, r.read, r.warn) ELSE r

\* The method name ignored: always the Enhanced-Response correction
WizardDispatch_always_enhanced(fsys, calibration_method, s11_med, s21_med) ==
    enhanced_response_calibrate(fsys, s11_med, s21_med, OsmResults, ThruResults)

\* The branch for a calibration made with the wizard (Kits and NoCalibration
\* both false, no imported DUT)
WizardDispatch(fsys, calibration_method, s11_med, s21_med) ==
    CASE calibration_method = "OSM (Open - Short - Match)" ->
           LET r == osm_calibrate_s11(fsys, OsmResults, s11_med)
           IN  IF r.ok THEN Return(r.s11, s21_med, r.read, r.warn) ELSE r
      [] calibration_method = "Normalization" ->
           LET r == normalization_calibrate_s21(fsys, ThruResults, s21_med)
           IN  IF r.ok THEN Return(s11_med, r.s21, r.read, r.warn) ELSE r
      [] calibration_method = "1-Port+N" ->
           LET r1 == osm_calibrate_s11(fsys, OsmResults, s11_med)
               r2 == normalization_calibrate_s21(fsys, ThruResults, s21_med)
           IN  IF ~r1.ok THEN r1
               ELSE IF ~r2.ok THEN Raise(r2.err, r1.read \cup r2.read, r1.warn \/ r2.warn)
               ELSE Return(r1.s11, r2.s21, r1.read \cup r2.read, r1.warn \/ r2.warn)
      [] calibration_method = "Enhanced-Response" ->
           enhanced_response_calibrate(fsys, s11_med, s21_med, OsmResults, ThruResults)
      [] OTHER -> Return(s11_med, s21_med, {}, FALSE)

\* NoCalibration not honoured: the wizard's correction is applied all the same
CalibrationDispatch_ignores_no_calibration(fsys, st, s11_med, s21_med) ==
    IF ~st.Kits THEN WizardDispatch(fsys, st.Method, s11_med, s21_med)
    ELSE IF st.Kits /\ ~st.NoCalibration
         THEN kits_selected(fsys, KitsDir, st.Method, KitNameOf(st.Name), s11_med, s21_med)
    ELSE Raise("UnboundLocalError", {}, FALSE)

\* The whole if/elif chain on the three flags.  With Kits and NoCalibration
\* both true no branch assigns s11 and s21, and the length check that follows
\* raises UnboundLocalError.  The imported-DUT branch is handled by run_sweep.
CalibrationDispatch(fsys, st, s11_med, s21_med) ==
    IF ~st.Kits /\ st.NoCalibration THEN Return(s11_med, s21_med, {}, FALSE)
    ELSE IF ~st.Kits /\ ~st.NoCalibration
         THEN WizardDispatch(fsys, st.Method, s11_med, s21_med)
    ELSE IF st.Kits /\ ~st.NoCalibration
         THEN kits_selected(fsys, KitsDir, st.Method, KitNameOf(st.Name), s11_med, s21_med)
    ELSE Raise("UnboundLocalError", {}, FALSE)

\* s11_med[0] = s11_med[1]
FixFirstPoint(v) == [v EXCEPT ![1] = v[2]]

\* np.array(freqs_data): the frequency points the device reports, in Hz
FreqVector(n) == [i \in 1..n |-> i * 1000000]

----------------------------------------------------------------------------
\* State

VARIABLES
    fs,        \* the error-term files on disk
    op,        \* the operation that ran last
    arg,       \* the raw S11 and raw S21 it worked on, and the directories used
    out,       \* the outcome of the correction (Return or Raise)
    settings,  \* the [Calibration] section of calibration_config.ini
    dut,       \* self.dut: the Touchstone network of an imported DUT
    vna_device,              \* self.vna_device: "none" or "device"
    freqs, s11, s21,         \* self.freqs, self.s11, self.s21
    sweep_button_enabled,
    sweep_progress_visible,
    reconnect_button_enabled,
    reset_timer,             \* QTimer.singleShot(700, self._reset_sweep_ui) pending
    sweep_result,            \* how the last run_sweep ended
    nsweeps,                 \* sweeps run so far
    methods,                 \* a Methods instance: its attribute calibration_dir
    history,                 \* the calls made on that instance so far
    dialog,                  \* a LaTeXExportDialog: its attributes and widgets
    latex_env,               \* the compiler _find_latex_compiler finds on this machine
    sweep_options,           \* a SweepOptionsWindow: its widgets and attributes
    sweep_config,            \* the [Frequency] section of sweep_window/config/config.ini
    main_config,             \* the sweep configuration the main window has loaded
    exporter,                \* a LatexExporter and the export it is asked for
    kit_groups               \* the Kit_<id> groups of calibration_config.ini

appvars == <<sweep_options, sweep_config, main_config, exporter, kit_groups>>

winvars == <<settings, dut, vna_device, freqs, s11, s21, sweep_button_enabled,
             sweep_progress_visible, reconnect_button_enabled, reset_timer, sweep_result, nsweeps,
             methods, history, dialog, latex_env, appvars>>

vars == <<fs, op, arg, out, settings, dut, vna_device, freqs, s11, s21, sweep_button_enabled,
          sweep_progress_visible, reconnect_button_enabled, reset_timer, sweep_result, nsweeps,
          methods, history, dialog, latex_env, appvars>>

\* settings.value defaults: Method and Name "---", the flags False
DefaultSettings ==
    [Method |-> "---", Name |-> <<"---">>, Kits |-> FALSE, NoCalibration |-> FALSE,
     isImportDut |-> FALSE, DUT |-> FALSE]

\* `measured` tells that raw data reached the calibration step of run_sweep,
\* `cfg` is the calibration configuration run_sweep read for it; s11_after and
\* s21_after are what the arrays a caller passed to a Methods operation hold
\* when the call is over (s11 and s21 are what they held when it began)
NoArg ==
    [s11 |-> <<>>, s21 |-> <<>>, calibration_dir |-> <<>>, osm_dir |-> <<>>, thru_dir |-> <<>>,
     measured |-> FALSE, cfg |-> DefaultSettings, s11_after |-> <<>>, s21_after |-> <<>>]

NoOut == Raise("", {}, FALSE)

\* No LaTeXExportDialog constructed
NoDialog ==
    [state |-> "none", latex_available |-> FALSE, output_path |-> <<>>,
     manual_compiler_path |-> "None", checker |-> "none", check_success |-> FALSE,
     status_label |-> "", download_visible |-> FALSE, export_button_enabled |-> FALSE]

\* No instance kept: the callers of Spec and run_sweep make one for each call
NoMethods == [calibration_dir |-> <<>>]

\* calls: how many calls were made; first: the first of them (operation,
\* arguments, outcome); mixed: a call that differs from the first was made
NoHistory == [calls |-> 0, first |-> [op |-> "none", arg |-> NoArg, out |-> NoOut], mixed |-> FALSE]

NoDut == [present |-> FALSE, s11 |-> <<>>, s21 |-> <<>>]

----------------------------------------------------------------------------
\* Decimal numbers.  A frequency or a spin box value is <<m, e>>, the number
\* m * 10^e with m >= 0 and no trailing zero in m: the float values the
\* program holds (50.0, 1.5, 50e3, 1.5e9, 0.025) taken exactly.

RECURSIVE Pow10(_)
Pow10(n) == IF n <= 0 THEN 1 ELSE 10 * Pow10(n - 1)

RECURSIVE Digits(_)
Digits(m) == IF m < 10 THEN 1 ELSE 1 + Digits(m \div 10)

RECURSIVE DNorm(_, _)
DNorm(m, e) ==
    IF m = 0 THEN <<0, 0>>
    ELSE IF m % 10 = 0 THEN DNorm(m \div 10, e + 1) ELSE <<m, e>>

DZero == <<0, 0>>

\* a < b
DLess(a, b) ==
    IF b[1] = 0 THEN FALSE
    ELSE IF a[1] = 0 THEN TRUE
    ELSE IF Digits(a[1]) + a[2] # Digits(b[1]) + b[2]
         THEN Digits(a[1]) + a[2] < Digits(b[1]) + b[2]
    ELSE IF a[2] >= b[2] THEN a[1] * Pow10(a[2] - b[2]) < b[1]
    ELSE a[1] < b[1] * Pow10(b[2] - a[2])

\* a * 10^k
DShift(a, k) == IF a[1] = 0 THEN DZero ELSE <<a[1], a[2] + k>>

\* a * n for a small natural n
DTimes(a, n) == DNorm(a[1] * n, a[2])

\* a rounded to `decimals` digits after the point
DRound(a, decimals) ==
    IF a[2] >= 0 - decimals THEN a
    ELSE IF (0 - decimals) - a[2] > Digits(a[1]) THEN DZero
    ELSE DNorm((a[1] + (Pow10((0 - decimals) - a[2]) \div 2)) \div Pow10((0 - decimals) - a[2]),
               0 - decimals)

\* int(a): the digits after the point dropped
DTrunc(a) ==
    IF a[2] >= 0 THEN a
    ELSE IF 0 - a[2] >= Digits(a[1]) THEN DZero
    ELSE DNorm(a[1] \div Pow10(0 - a[2]), 0)

\* max(lo, min(a, hi))
DBound(a, lo, hi) == IF DLess(a, lo) THEN lo ELSE IF DLess(hi, a) THEN hi ELSE a

----------------------------------------------------------------------------
\* The parts of the application outside the graphics window's sweep

\* No SweepOptionsWindow constructed
NoSweepOptions ==
    [state |-> "none", start_freq |-> DZero, start_unit |-> "kHz", stop_freq |-> DZero,
     stop_unit |-> "GHz", segments |-> 0, original_values |-> <<>>, opened_with |-> <<>>]

\* config.ini without a [Frequency] section.  freq_stored: the keys StartFreqHz,
\* StopFreqHz, StartUnit and StopUnit are there; segments_stored: Segments is.
NoSweepConfig ==
    [freq_stored |-> FALSE, StartFreqHz |-> DZero, StopFreqHz |-> DZero, StartUnit |-> "kHz",
     StopUnit |-> "GHz", segments_stored |-> FALSE, Segments |-> 0]

\* load_sweep_configuration: the values set when the config file does not exist
DefaultMainConfig ==
    [start_freq_hz |-> <<5, 4>>, stop_freq_hz |-> <<15, 8>>, segments |-> 101,
     start_unit |-> "None", stop_unit |-> "None"]

\* A key of measurement_numbers.ini that is not there
Absent == <<>>

\* Measurement names: the base name of the exported file, or the name the
\* caller passes
Names == {"report", "dut", "LastResetDate"}

\* No call made yet
NoCall == [op |-> "none", name |-> "report", result |-> "none", numbered |-> FALSE, number |-> 0]

\* No LatexExporter constructed, no measurement_numbers.ini written; `made`
\* counts the calls of _get_calibration_info per name on the date `today`
NoExporter ==
    [state |-> "none", figures |-> 0, tracking |-> [k \in Names |-> Absent], today |-> 1,
     made |-> [k \in Names |-> 0], ncalls |-> 0, last |-> NoCall]

\* calibration_config.ini without Kit_<id> groups
NoKits == <<>>

InitApp ==
    /\ sweep_options = NoSweepOptions
    /\ sweep_config = NoSweepConfig
    /\ main_config = DefaultMainConfig
    /\ exporter = NoExporter
    /\ kit_groups = NoKits

\* A window without device and without data: NanoVNAGraphics()
InitWindow ==
    /\ settings = DefaultSettings
    /\ dut = NoDut
    /\ vna_device = "none"
    /\ freqs = <<>> /\ s11 = <<>> /\ s21 = <<>>
    /\ sweep_button_enabled = TRUE
    /\ sweep_progress_visible = FALSE
    /\ reconnect_button_enabled = TRUE
    /\ reset_timer = FALSE
    /\ sweep_result = "none"
    /\ nsweeps = 0
    /\ methods = NoMethods
    /\ history = NoHistory
    /\ dialog = NoDialog
    /\ latex_env = "None"
    /\ InitApp

Init ==
    /\ fs \in FileSystems
    /\ op = "none"
    /\ arg = NoArg
    /\ out = NoOut
    /\ InitWindow

\* The first element overwritten in place with the second
ArgumentAfterCall_first_point_overwritten(v) ==
    IF Len(v) >= 2 THEN [v EXCEPT ![1] = v[2]] ELSE v

\* The array object passed as a raw vector, when the operation is over.  The
\* operations only read it: v.copy() and the arithmetic make new arrays,
\* v = v[:min_points] rebinds the local name to a view that is read, and the
\* two indexed assignments go to `result`, the array np.zeros made.
ArgumentAfterCall(v) == v

\* A Methods operation called on its own, once, with arguments of the caller's choice
CallOsmCalibrateS11 ==
    /\ op = "none"
    /\ \E dir \in CalDirs, s11_med \in RawVectors :
        /\ op' = "osm_calibrate_s11"
        /\ arg' = [NoArg EXCEPT !.s11 = s11_med, !.calibration_dir = dir,
                                !.s11_after = ArgumentAfterCall(s11_med)]
        /\ out' = osm_calibrate_s11(fs, dir, s11_med)
    /\ UNCHANGED <<fs, winvars>>

CallNormalizationCalibrateS21 ==
    /\ op = "none"
    /\ \E dir \in CalDirs, s21_med \in RawVectors :
        /\ op' = "normalization_calibrate_s21"
        /\ arg' = [NoArg EXCEPT !.s21 = s21_med, !.calibration_dir = dir,
                                !.s21_after = ArgumentAfterCall(s21_med)]
        /\ out' = normalization_calibrate_s21(fs, dir, s21_med)
    /\ UNCHANGED <<fs, winvars>>

\* The directory pairs a caller passes: (osm_dir, thru_dir) as run_sweep
\* builds them, and the two swapped.
DirPairs == {<<OsmResults, ThruResults>>, <<ThruResults, OsmResults>>}

CallOnePortNCalibrate ==
    /\ op = "none"
    /\ \E dirs \in DirPairs, s11_med \in RawVectors, s21_med \in RawVectors :
        /\ op' = "one_port_n_calibrate"
        /\ arg' = [NoArg EXCEPT !.s11 = s11_med, !.s21 = s21_med,
                                !.osm_dir = dirs[1], !.thru_dir = dirs[2],
                                !.s11_after = ArgumentAfterCall(s11_med),
                                !.s21_after = ArgumentAfterCall(s21_med)]
        /\ out' = one_port_n_calibrate(fs, s11_med, s21_med, dirs[1], dirs[2])
    /\ UNCHANGED <<fs, winvars>>

CallEnhancedResponseCalibrate ==
    /\ op = "none"
    /\ \E dirs \in DirPairs, s11_med \in RawVectors, s21_med \in RawVectors :
        /\ op' = "enhanced_response_calibrate"
        /\ arg' = [NoArg EXCEPT !.s11 = s11_med, !.s21 = s21_med,
                                !.osm_dir = dirs[1], !.thru_dir = dirs[2],
                                !.s11_after = ArgumentAfterCall(s11_med),
                                !.s21_after = ArgumentAfterCall(s21_med)]
        /\ out' = enhanced_response_calibrate(fs, s11_med, s21_med, dirs[1], dirs[2])
    /\ UNCHANGED <<fs, winvars>>

----------------------------------------------------------------------------
\* NanoVNAGraphics.run_sweep

\* Limits on the number of sweep points when the device declares none
default_min == 11
default_max == 1023

\* Sweep configurations load_sweep_configuration can load
SweepConfigs ==
    [segments : {10, 11, 101, 1024}, start_freq_hz : {50000, 900000000}, stop_freq_hz : {900000000}]

\* vna_device.connected() and, when it is false, the outcome of connect()
ConnOutcomes == {"connected", "reconnected", "connect_failed", "connect_raised"}

\* What the device hands back: the numbers of frequency, S11 and S21 points
\* (equal, or one of the three differing), or an exception of the driver
DeviceRaises == <<0 - 1, 0 - 1, 0 - 1>>

DeviceReads ==
    {<<n, n, n>> : n \in 0..MaxLen}
        \cup {<<m, 2, 2>> : m \in 0..MaxLen}
        \cup {<<2, m, 2>> : m \in 0..MaxLen}
        \cup {<<2, 2, m>> : m \in 0..MaxLen}
        \cup {DeviceRaises}

\* Sweeps explored in one behaviour
MaxSweeps == 1

\* _reset_sweep_ui without self.sweep_button.setEnabled(True)
reset_sweep_ui_keeps_sweep_button ==
    /\ sweep_button_enabled' = sweep_button_enabled
    /\ sweep_progress_visible' = FALSE
    /\ reconnect_button_enabled' = TRUE

\* self._reset_sweep_ui()
reset_sweep_ui ==
    /\ sweep_button_enabled' = TRUE
    /\ sweep_progress_visible' = FALSE
    /\ reconnect_button_enabled' = TRUE

\* The data of the window dropped when a sweep is abandoned
AbortSweep_clears_data(how, a, o, st) ==
    /\ sweep_result' = how
    /\ arg' = a
    /\ out' = o
    /\ settings' = st
    /\ reset_sweep_ui
    /\ freqs' = <<>> /\ s11' = <<>> /\ s21' = <<>>
    /\ UNCHANGED <<fs, dut, vna_device, reset_timer>>

\* The sweep ends in the except clause or in an early return after the
\* buttons were disabled: nothing is stored
AbortSweep(how, a, o, st) ==
    /\ sweep_result' = how
    /\ arg' = a
    /\ out' = o
    /\ settings' = st
    /\ reset_sweep_ui
    /\ UNCHANGED <<fs, dut, vna_device, freqs, s11, s21, reset_timer>>

\* len(freqs) != len(s11) or len(freqs) != len(s21), negated, with the
\* comparison with s21 left out
DataConsistent_s21_unchecked(new_freqs, new_s11, new_s21) ==
    Len(new_freqs) = Len(new_s11)

\* Validate data consistency: the sweep is stored when neither comparison of
\* len(freqs) != len(s11) or len(freqs) != len(s21) holds
DataConsistent(new_freqs, new_s11, new_s21) ==
    ~(Len(new_freqs) # Len(new_s11) \/ Len(new_freqs) # Len(new_s21))

\* What follows the commit: the plots and markers are updated and the success
\* message is built; freqs[0] of the message raises IndexError when the sweep
\* has no points
AfterCommit(new_freqs) == IF new_freqs = <<>> THEN "raised" ELSE "completed"

\* Returns before the try block: no device, or the connection cannot be made
run_sweep_no_device ==
    /\ \E conn \in ConnOutcomes :
        /\ vna_device = "none" \/ conn \in {"connect_failed", "connect_raised"}
        /\ sweep_result' = IF vna_device = "none" THEN "no_device" ELSE "no_connection"
    /\ arg' = NoArg /\ out' = NoOut
    /\ UNCHANGED <<fs, settings, dut, vna_device, freqs, s11, s21, sweep_button_enabled,
                   sweep_progress_visible, reconnect_button_enabled, reset_timer>>

SweepRejected(cfg) ==
    \/ cfg.segments < default_min \/ cfg.segments > default_max
    \/ cfg.start_freq_hz >= cfg.stop_freq_hz

\* The sweep parameters are rejected
run_sweep_rejected ==
    /\ vna_device # "none"
    /\ \E cfg \in SweepConfigs : SweepRejected(cfg)
    /\ AbortSweep("rejected", NoArg, NoOut, settings)

\* The sweep runs on the device
run_sweep_measure ==
    /\ vna_device # "none"
    /\ \E cfg \in SweepConfigs : ~SweepRejected(cfg)
    /\ \E dev \in DeviceReads, emptyDut \in {b \in BOOLEAN : b => (settings.isImportDut /\ ~dut.present)} :
        IF dev = DeviceRaises
        THEN AbortSweep("error", NoArg, Raise("DeviceError", {}, FALSE), settings)
        ELSE IF dev[2] < 2
        THEN \* s11_med[0] = s11_med[1] raises IndexError
             AbortSweep("error", NoArg, Raise("IndexError", {}, FALSE), settings)
        ELSE
        LET freqs_dev == FreqVector(dev[1])
            s11_med   == FixFirstPoint(RawVector("a", dev[2]))
            s21_med   == RawVector("b", dev[3])
            a         == [NoArg EXCEPT !.s11 = s11_med, !.s21 = s21_med, !.measured = TRUE,
                                       !.cfg = settings]
            st1       == IF settings.isImportDut THEN [settings EXCEPT !.DUT = TRUE] ELSE settings
            r == IF ~settings.isImportDut
                 THEN CalibrationDispatch(fs, settings, s11_med, s21_med)
                 ELSE IF dut.present THEN Return(dut.s11, dut.s21, {}, FALSE)
                 ELSE IF emptyDut THEN Return(<<>>, <<>>, {}, FALSE)
                 ELSE Raise("DutError", {}, FALSE)
            new_freqs == IF settings.isImportDut
                         THEN (IF dut.present THEN FreqVector(Len(dut.s11)) ELSE <<>>)
                         ELSE freqs_dev
        IN  IF ~r.ok THEN AbortSweep("error", a, r, st1)
            ELSE IF ~DataConsistent(new_freqs, r.s11, r.s21)
            THEN AbortSweep("inconsistent", a, r, st1)
            ELSE /\ arg' = a
                 /\ out' = r
                 /\ freqs' = new_freqs
                 /\ s11' = r.s11
                 /\ s21' = r.s21
                 \* update_plots_with_new_data -> _recreate_single_plot
                 /\ settings' = [st1 EXCEPT !.isImportDut = FALSE]
                 /\ IF AfterCommit(new_freqs) = "completed"
                    THEN /\ sweep_result' = "done"
                         /\ sweep_button_enabled' = FALSE
                         /\ sweep_progress_visible' = TRUE
                         /\ reconnect_button_enabled' = FALSE
                         /\ reset_timer' = TRUE
                    ELSE \* the except clause
                         /\ sweep_result' = "error_after_commit"
                         /\ reset_sweep_ui
                         /\ UNCHANGED reset_timer
                 /\ UNCHANGED <<fs, dut, vna_device>>

run_sweep ==
    /\ nsweeps < MaxSweeps
    /\ nsweeps' = nsweeps + 1
    /\ UNCHANGED <<methods, history, dialog, latex_env, appvars>>
    /\ op' = "run_sweep"
    /\ \/ run_sweep_no_device
       \/ run_sweep_rejected
       \/ run_sweep_measure

\* The 700 ms single-shot timer fires
reset_sweep_ui_timeout ==
    /\ reset_timer
    /\ reset_timer' = FALSE
    /\ reset_sweep_ui
    /\ UNCHANGED <<fs, op, arg, out, settings, dut, vna_device, freqs, s11, s21, sweep_result,
                   nsweeps, methods, history, dialog, latex_env, appvars>>

Next ==
    \/ CallOsmCalibrateS11
    \/ CallNormalizationCalibrateS21
    \/ CallOnePortNCalibrate
    \/ CallEnhancedResponseCalibrate

Spec == Init /\ [][Next]_vars

\* The graphics window with a device: the persisted calibration settings and
\* the stored files are whatever earlier sessions left.
Flags == [Kits : BOOLEAN, NoCalibration : BOOLEAN, isImportDut : BOOLEAN]

SweepSettings ==
    {[DefaultSettings EXCEPT !.Method = m, !.Kits = f.Kits, !.NoCalibration = f.NoCalibration,
                             !.isImportDut = f.isImportDut, !.Name = nm] :
        m \in MethodNames \cup {"---"}, f \in Flags, nm \in {<<"---">>}}

\* Networks a user imports as DUT
DutNets ==
    {[present |-> TRUE, s11 |-> RawVector("a", n), s21 |-> RawVector("b", n)] : n \in 1..MaxLen}

\* File systems of the sweeps: every file stored with the same number of
\* points, at most one of them missing
SweepFileSystems ==
    {[p \in FileIds |-> AbsentNet]} \cup
    {[p \in FileIds |-> IF p = dev THEN AbsentNet ELSE StoredNet(p, "generic", n)] :
        n \in 1..MaxLen, dev \in FileIds \cup {<<>>}}

\* self.freqs, self.s11, self.s21 as the constructor got them: None, or the
\* data of an earlier measurement
StoredData ==
    {<<>>, <<FreqVector(2), RawVector("b", 2), RawVector("a", 2)>>}

InitSweep ==
    /\ op = "none"
    /\ arg = NoArg
    /\ out = NoOut
    /\ \E d \in StoredData :
        IF d = <<>> THEN freqs = <<>> /\ s11 = <<>> /\ s21 = <<>>
        ELSE freqs = d[1] /\ s11 = d[2] /\ s21 = d[3]
    /\ sweep_button_enabled = TRUE
    /\ sweep_progress_visible = FALSE
    /\ reconnect_button_enabled = TRUE
    /\ reset_timer = FALSE
    /\ sweep_result = "none"
    /\ nsweeps = 0
    /\ methods = NoMethods
    /\ history = NoHistory
    /\ dialog = NoDialog
    /\ latex_env = "None"
    /\ InitApp
    /\ \/ /\ vna_device = "none"
          /\ settings = DefaultSettings
          /\ dut = NoDut
          /\ fs = [p \in FileIds |-> AbsentNet]
       \/ /\ vna_device = "device"
          /\ settings \in SweepSettings
          /\ IF settings.isImportDut
             THEN /\ dut \in DutNets \cup {NoDut}
                  /\ fs = [p \in FileIds |-> AbsentNet]
             ELSE /\ dut = NoDut
                  /\ fs \in SweepFileSystems

NextSweep ==
    \/ run_sweep
    \/ reset_sweep_ui_timeout

SpecSweep == InitSweep /\ [][NextSweep]_vars

----------------------------------------------------------------------------
\* Properties of the correction operations (specification Spec)

\* The stored networks a call on directory `dir` works with
Directivity(dir, sub)          == Lookup(fs, <<dir, sub, "directivity.s1p">>)
ReflectionTracking(dir, sub)   == Lookup(fs, <<dir, sub, "reflection_tracking.s1p">>)
SourceMatch(dir, sub)          == Lookup(fs, <<dir, sub, "source_match.s1p">>)
TransmissionTracking(dir, sub) == Lookup(fs, <<dir, sub, "transmission_tracking.s2p">>)
LoadMatch(dir, sub)            == Lookup(fs, <<dir, sub, "load_match.s2p">>)

\* The three OSM terms under dir/sub are stored, each with n points
OsmTermsOfLength(dir, sub, n) ==
    /\ Directivity(dir, sub).present /\ Len(Directivity(dir, sub).s11) = n
    /\ ReflectionTracking(dir, sub).present /\ Len(ReflectionTracking(dir, sub).s11) = n
    /\ SourceMatch(dir, sub).present /\ Len(SourceMatch(dir, sub).s11) = n

ThruTermOfLength(dir, sub, n) ==
    /\ TransmissionTracking(dir, sub).present
    /\ Len(TransmissionTracking(dir, sub).s21) = n

\* (raw[i] - directivity[i]) / (raw[i] * source_match[i] - delta_e[i]),
\* delta_e[i] = source_match[i] * directivity[i] - reflection_tracking[i]
OsmPoint(raw, dir, sub, i) ==
    LET d  == Directivity(dir, sub).s11[i]
        rt == ReflectionTracking(dir, sub).s11[i]
        sm == SourceMatch(dir, sub).s11[i]
    IN  CDiv(CSub(raw[i], d), CSub(CMul(raw[i], sm), CSub(CMul(sm, d), rt)))

\* raw[i] / transmission_tracking[i]
ThruPoint(raw, dir, sub, i) == CDiv(raw[i], TransmissionTracking(dir, sub).s21[i])

\* (raw_s21[i] / transmission_tracking[i])
\*    * (reflection_tracking[i] / (source_match[i] * raw_s11[i] - delta_e[i]))
EnhancedPoint(raw_s21, raw_s11, dir, sub, i) ==
    LET d  == Directivity(dir, sub).s11[i]
        rt == ReflectionTracking(dir, sub).s11[i]
        sm == SourceMatch(dir, sub).s11[i]
    IN  CMul(ThruPoint(raw_s21, dir, sub, i),
             CDiv(rt, CSub(CMul(sm, raw_s11[i]), CSub(CMul(sm, d), rt))))

\* C1: with OSM error terms of the same length as the raw S11 vector,
\* osm_calibrate_s11 returns, at every index i,
\* (raw[i] - directivity[i]) / (raw[i] * source_match[i] - delta_e[i]).
C1_OsmSameLength ==
    (/\ op = "osm_calibrate_s11"
     /\ OsmTermsOfLength(arg.calibration_dir, "osm_errors", Len(arg.s11)))
    => /\ out.ok
       /\ Len(out.s11) = Len(arg.s11)
       /\ \A i \in 1..Len(arg.s11) :
            out.s11[i] = OsmPoint(arg.s11, arg.calibration_dir, "osm_errors", i)

C1_Witness ==
    /\ op = "osm_calibrate_s11"
    /\ Len(arg.s11) >= 2
    /\ OsmTermsOfLength(arg.calibration_dir, "osm_errors", Len(arg.s11))
    /\ out.ok
    /\ \A i \in 1..Len(arg.s11) : IsFinite(out.s11[i]) /\ out.s11[i] # arg.s11[i]

\* C2: with the five Enhanced-Response files stored with as many points as the
\* raw vectors, enhanced_response_calibrate returns the OSM formula of raw S11
\* as corrected S11 and, as corrected S21,
\* (raw_s21 / transmission_tracking) * (reflection_tracking / (source_match * raw_s11 - delta_e)),
\* the S11 of the denominator being the raw input.
C2_EnhancedSameLength ==
    (/\ op = "enhanced_response_calibrate"
     /\ Len(arg.s21) = Len(arg.s11)
     /\ OsmTermsOfLength(arg.thru_dir, "enhanced_response_errors", Len(arg.s11))
     /\ ThruTermOfLength(arg.thru_dir, "enhanced_response_errors", Len(arg.s11))
     /\ LoadMatch(arg.thru_dir, "enhanced_response_errors").present)
    => /\ out.ok
       /\ Len(out.s11) = Len(arg.s11)
       /\ Len(out.s21) = Len(arg.s21)
       /\ \A i \in 1..Len(arg.s11) :
            /\ out.s11[i] = OsmPoint(arg.s11, arg.thru_dir, "enhanced_response_errors", i)
            /\ out.s21[i] = EnhancedPoint(arg.s21, arg.s11, arg.thru_dir,
                                          "enhanced_response_errors", i)

C2_Witness ==
    /\ op = "enhanced_response_calibrate"
    /\ Len(arg.s11) >= 2
    /\ Len(arg.s21) = Len(arg.s11)
    /\ OsmTermsOfLength(arg.thru_dir, "enhanced_response_errors", Len(arg.s11))
    /\ ThruTermOfLength(arg.thru_dir, "enhanced_response_errors", Len(arg.s11))
    /\ out.ok
    /\ \A i \in 1..Len(arg.s11) :
         /\ IsFinite(out.s11[i]) /\ out.s11[i] # arg.s11[i]
         /\ IsFinite(out.s21[i]) /\ out.s21[i] # arg.s21[i]

\* C3: with error terms of C points and a raw vector of N > C points,
\* osm_calibrate_s11 and normalization_calibrate_s21 return N points: the
\* first C corrected from raw[0..C-1], the others equal to the raw values.
C3_PaddedWithRaw ==
    /\ \A c \in 0..MaxLen :
         (/\ op = "osm_calibrate_s11"
          /\ c < Len(arg.s11)
          /\ OsmTermsOfLength(arg.calibration_dir, "osm_errors", c))
         => /\ out.ok
            /\ Len(out.s11) = Len(arg.s11)
            /\ \A i \in 1..c :
                 out.s11[i] = OsmPoint(arg.s11, arg.calibration_dir, "osm_errors", i)
            /\ \A i \in (c + 1)..Len(arg.s11) : out.s11[i] = arg.s11[i]
    /\ \A c \in 0..MaxLen :
         (/\ op = "normalization_calibrate_s21"
          /\ c < Len(arg.s21)
          /\ ThruTermOfLength(arg.calibration_dir, "normalization_errors", c))
         => /\ out.ok
            /\ Len(out.s21) = Len(arg.s21)
            /\ \A i \in 1..c :
                 out.s21[i] = ThruPoint(arg.s21, arg.calibration_dir, "normalization_errors", i)
            /\ \A i \in (c + 1)..Len(arg.s21) : out.s21[i] = arg.s21[i]

C3_Witness ==
    /\ op = "osm_calibrate_s11"
    /\ Len(arg.s11) = 3
    /\ OsmTermsOfLength(arg.calibration_dir, "osm_errors", 2)
    /\ out.ok
    /\ Len(out.s11) = 3
    /\ out.s11[1] # arg.s11[1] /\ out.s11[2] # arg.s11[2] /\ out.s11[3] = arg.s11[3]

\* C4: whatever the point counts of the stored terms and of the raw vectors,
\* the corrected vectors an operation returns are as long as the raw vectors.
C4_SameLengthAsRaw ==
    \A c \in 0..MaxLen :
        /\ (/\ op = "osm_calibrate_s11"
            /\ OsmTermsOfLength(arg.calibration_dir, "osm_errors", c)
            /\ out.ok) => Len(out.s11) = Len(arg.s11)
        /\ (/\ op = "normalization_calibrate_s21"
            /\ ThruTermOfLength(arg.calibration_dir, "normalization_errors", c)
            /\ out.ok) => Len(out.s21) = Len(arg.s21)
        /\ (/\ op = "one_port_n_calibrate"
            /\ Len(arg.s11) = Len(arg.s21)
            /\ OsmTermsOfLength(arg.osm_dir, "osm_errors", c)
            /\ ThruTermOfLength(arg.thru_dir, "1-Port-N_errors", c)
            /\ out.ok) => (Len(out.s11) = Len(arg.s11) /\ Len(out.s21) = Len(arg.s21))
        /\ (/\ op = "enhanced_response_calibrate"
            /\ Len(arg.s11) = Len(arg.s21)
            /\ OsmTermsOfLength(arg.thru_dir, "enhanced_response_errors", c)
            /\ ThruTermOfLength(arg.thru_dir, "enhanced_response_errors", c)
            /\ LoadMatch(arg.thru_dir, "enhanced_response_errors").present
            /\ out.ok) => (Len(out.s11) = Len(arg.s11) /\ Len(out.s21) = Len(arg.s21))

\* C5: a point-count mismatch between stored terms and raw vectors never ends
\* in an error: each of the four operations returns corrected vectors.
C5_MismatchNeverRaises ==
    \A c \in 1..MaxLen :
        /\ (/\ op = "osm_calibrate_s11"
            /\ c # Len(arg.s11)
            /\ OsmTermsOfLength(arg.calibration_dir, "osm_errors", c)) => out.ok
        /\ (/\ op = "normalization_calibrate_s21"
            /\ c # Len(arg.s21)
            /\ ThruTermOfLength(arg.calibration_dir, "normalization_errors", c)) => out.ok
        /\ (/\ op = "one_port_n_calibrate"
            /\ Len(arg.s11) = Len(arg.s21) /\ c # Len(arg.s11)
            /\ OsmTermsOfLength(arg.osm_dir, "osm_errors", c)
            /\ ThruTermOfLength(arg.thru_dir, "1-Port-N_errors", c)) => out.ok
        /\ (/\ op = "enhanced_response_calibrate"
            /\ Len(arg.s11) = Len(arg.s21) /\ c # Len(arg.s11)
            /\ OsmTermsOfLength(arg.thru_dir, "enhanced_response_errors", c)
            /\ ThruTermOfLength(arg.thru_dir, "enhanced_response_errors", c)
            /\ LoadMatch(arg.thru_dir, "enhanced_response_errors").present) => out.ok

\* C6: with a transmission-tracking term of the same length as the raw S21
\* vector, normalization_calibrate_s21 returns raw[i] / transmission_tracking[i]
\* at every index; with an all-ones term the result is the raw vector.
C6_NormalizationSameLength ==
    (/\ op = "normalization_calibrate_s21"
     /\ ThruTermOfLength(arg.calibration_dir, "normalization_errors", Len(arg.s21)))
    => /\ out.ok
       /\ Len(out.s21) = Len(arg.s21)
       /\ \A i \in 1..Len(arg.s21) :
            out.s21[i] = ThruPoint(arg.s21, arg.calibration_dir, "normalization_errors", i)
       /\ (\A i \in 1..Len(arg.s21) :
             TransmissionTracking(arg.calibration_dir, "normalization_errors").s21[i] = COne)
          => out.s21 = arg.s21

C6_Witness ==
    /\ op = "normalization_calibrate_s21"
    /\ Len(arg.s21) >= 2
    /\ ThruTermOfLength(arg.calibration_dir, "normalization_errors", Len(arg.s21))
    /\ out.ok
    /\ \A i \in 1..Len(arg.s21) : IsFinite(out.s21[i]) /\ out.s21[i] # arg.s21[i]

\* C10: a correction operation fails and returns nothing when a file it
\* requires is absent: one of the three osm_errors files (OSM), 
\* transmission_tracking.s2p (Normalization), one of the four files of
\* 1-Port+N, one of the five enhanced_response_errors files, load_match.s2p
\* included (Enhanced-Response).
NoResult == ~out.ok /\ out.s11 = <<>> /\ out.s21 = <<>>

OsmTermsStored(dir, sub) ==
    /\ Directivity(dir, sub).present
    /\ ReflectionTracking(dir, sub).present
    /\ SourceMatch(dir, sub).present

C10_MissingFileFails ==
    /\ (op = "osm_calibrate_s11" /\ ~OsmTermsStored(arg.calibration_dir, "osm_errors"))
         => NoResult
    /\ (/\ op = "normalization_calibrate_s21"
        /\ ~TransmissionTracking(arg.calibration_dir, "normalization_errors").present)
         => NoResult
    /\ (/\ op = "one_port_n_calibrate"
        /\ \/ ~OsmTermsStored(arg.osm_dir, "osm_errors")
           \/ ~TransmissionTracking(arg.thru_dir, "1-Port-N_errors").present)
         => NoResult
    /\ (/\ op = "enhanced_response_calibrate"
        /\ \/ ~OsmTermsStored(arg.thru_dir, "enhanced_response_errors")
           \/ ~TransmissionTracking(arg.thru_dir, "enhanced_response_errors").present
           \/ ~LoadMatch(arg.thru_dir, "enhanced_response_errors").present)
         => NoResult

\* only load_match.s2p is missing, everything else fits the raw vectors
C10_Witness ==
    /\ op = "enhanced_response_calibrate"
    /\ Len(arg.s11) >= 2 /\ Len(arg.s21) = Len(arg.s11)
    /\ OsmTermsOfLength(arg.thru_dir, "enhanced_response_errors", Len(arg.s11))
    /\ ThruTermOfLength(arg.thru_dir, "enhanced_response_errors", Len(arg.s11))
    /\ ~LoadMatch(arg.thru_dir, "enhanced_response_errors").present
    /\ NoResult
    /\ out.err = "FileNotFoundError"

----------------------------------------------------------------------------
\* Properties of the calibration dispatch of run_sweep (specification SpecSweep)

\* run_sweep got raw data from the device and read the configuration cfg
Dispatched == op = "run_sweep" /\ arg.measured /\ ~arg.cfg.isImportDut

WizardCalibration == Dispatched /\ ~arg.cfg.Kits /\ ~arg.cfg.NoCalibration

\* C7: with NoCalibration true, Kits false and no imported DUT, run_sweep hands
\* back the raw S11 and the raw S21 and reads no error-term file.
C7_NoCalibrationPassThrough ==
    (Dispatched /\ ~arg.cfg.Kits /\ arg.cfg.NoCalibration)
    => /\ out.ok
       /\ out.s11 = arg.s11 /\ out.s21 = arg.s21
       /\ out.read = {}
       /\ sweep_result \in {"done", "inconsistent"}
       /\ sweep_result = "done" => (s11 = arg.s11 /\ s21 = arg.s21)

C7_Witness ==
    /\ Dispatched /\ ~arg.cfg.Kits /\ arg.cfg.NoCalibration
    /\ arg.cfg.Method = "OSM (Open - Short - Match)"
    /\ \A p \in FileIds : fs[p].present
    /\ sweep_result = "done"
    /\ Len(s11) >= 2 /\ s11 = arg.s11 /\ s21 = arg.s21

OsmCorrected(dir, sub) ==
    /\ {<<dir, sub, "directivity.s1p">>, <<dir, sub, "reflection_tracking.s1p">>,
        <<dir, sub, "source_match.s1p">>} \subseteq out.read
    /\ OsmTermsOfLength(dir, sub, Len(arg.s11))
         => \A i \in 1..Len(arg.s11) : out.s11[i] = OsmPoint(arg.s11, dir, sub, i)

\* S21 was divided by a stored transmission-tracking term
ThruCorrected ==
    \E p \in out.read :
        /\ p[3] = "transmission_tracking.s2p"
        /\ Len(fs[p].s21) = Len(arg.s21)
             => \A i \in 1..Len(arg.s21) : out.s21[i] = CDiv(arg.s21[i], fs[p].s21[i])

C9_MethodSelectsCorrector ==
    (WizardCalibration /\ out.ok) =>
        /\ arg.cfg.Method = "OSM (Open - Short - Match)"
             => /\ OsmCorrected(OsmResults, "osm_errors")
                /\ out.s21 = arg.s21
                /\ \A p \in out.read : p[3] # "transmission_tracking.s2p"
        /\ arg.cfg.Method = "Normalization"
             => /\ ThruCorrected
                /\ out.s11 = arg.s11
                /\ \A p \in out.read : p[3] = "transmission_tracking.s2p"
        /\ arg.cfg.Method = "1-Port+N"
             => /\ OsmCorrected(OsmResults, "osm_errors")
                /\ ThruCorrected
        /\ arg.cfg.Method = "Enhanced-Response"
             => /\ OsmCorrected(ThruResults, "enhanced_response_errors")
                /\ <<ThruResults, "enhanced_response_errors", "transmission_tracking.s2p">>
                     \in out.read
                /\ (/\ Len(arg.s21) = Len(arg.s11)
                    /\ OsmTermsOfLength(ThruResults, "enhanced_response_errors", Len(arg.s11))
                    /\ ThruTermOfLength(ThruResults, "enhanced_response_errors", Len(arg.s11)))
                     => \A i \in 1..Len(arg.s11) :
                          out.s21[i] = EnhancedPoint(arg.s21, arg.s11, ThruResults,
                                                     "enhanced_response_errors", i)

C9_Witness ==
    /\ WizardCalibration
    /\ arg.cfg.Method = "1-Port+N"
    /\ sweep_result = "done"
    /\ Len(s11) >= 2
    /\ \A i \in 1..Len(s11) : s11[i] # arg.s11[i] /\ s21[i] # arg.s21[i]

\* C11: a calibration failure during run_sweep (a missing error-term file, an
\* error raised by a corrector) ends that sweep only: run_sweep returns through
\* its except clause, the sweep UI is reset (sweep button enabled, progress bar
\* hidden, no reset timer armed by this sweep), and the freqs, s11 and s21 the
\* window held before the sweep are the ones it holds after it.
CalibrationFailed == Dispatched /\ ~out.ok

C11_CalibrationFailureIsolated ==
    [][(run_sweep /\ CalibrationFailed')
         => /\ sweep_result' = "error"
            /\ sweep_button_enabled' /\ ~sweep_progress_visible'
            /\ reset_timer' = reset_timer
            /\ freqs' = freqs /\ s11' = s11 /\ s21' = s21]_vars

\* a sweep of a Normalization calibration whose file is missing, in a window
\* that shows an earlier measurement
C11_Witness ==
    /\ CalibrationFailed
    /\ arg.cfg.Method = "Normalization" /\ ~arg.cfg.Kits /\ ~arg.cfg.NoCalibration
    /\ out.err = "FileNotFoundError"
    /\ sweep_result = "error"
    /\ sweep_button_enabled
    /\ freqs = FreqVector(2) /\ s11 = RawVector("b", 2) /\ s21 = RawVector("a", 2)

----------------------------------------------------------------------------
\* Properties of the reconciliation step (specification Spec)

\* C12: with stored terms of as many points as the raw vector,
\* osm_calibrate_s11 and normalization_calibrate_s21 truncate nothing and pad
\* nothing: no size mismatch is logged, the result is as long as the raw vector
\* and its every index holds the value corrected from the raw value and the
\* error-term values of that index.
C12_EqualCountsUntouched ==
    /\ (/\ op = "osm_calibrate_s11"
         /\ OsmTermsOfLength(arg.calibration_dir, "osm_errors", Len(arg.s11)))
        => /\ out.ok /\ ~out.warn
           /\ DOMAIN out.s11 = DOMAIN arg.s11
           /\ LET t == OsmFormulaInputs(fs, arg.calibration_dir, arg.s11)
               IN  /\ t.s11_med = arg.s11
                   /\ t.directivity = Directivity(arg.calibration_dir, "osm_errors").s11
                   /\ t.reflection_tracking
                        = ReflectionTracking(arg.calibration_dir, "osm_errors").s11
                   /\ t.source_match = SourceMatch(arg.calibration_dir, "osm_errors").s11
           /\ \A i \in DOMAIN arg.s11 :
                out.s11[i] = OsmPoint(arg.s11, arg.calibration_dir, "osm_errors", i)
    /\ (/\ op = "normalization_calibrate_s21"
         /\ ThruTermOfLength(arg.calibration_dir, "normalization_errors", Len(arg.s21)))
        => /\ out.ok /\ ~out.warn
           /\ DOMAIN out.s21 = DOMAIN arg.s21
           /\ \A i \in DOMAIN arg.s21 :
                out.s21[i] = ThruPoint(arg.s21, arg.calibration_dir, "normalization_errors", i)

C12_Witness ==
    /\ op = "normalization_calibrate_s21"
    /\ Len(arg.s21) = MaxLen
    /\ ThruTermOfLength(arg.calibration_dir, "normalization_errors", Len(arg.s21))
    /\ out.ok /\ ~out.warn
    /\ \A i \in DOMAIN arg.s21 : IsFinite(out.s21[i]) /\ out.s21[i] # arg.s21[i]

\* C13: with stored terms of C points and a raw vector of N < C points,
\* osm_calibrate_s11 and normalization_calibrate_s21 use the first N values of
\* the terms: the result has N points, and its every index i holds the value
\* corrected from raw[i] and the i-th values of the terms; no point is padded.
C13_TermsTruncated ==
    /\ \A c \in 1..MaxLen :
         (/\ op = "osm_calibrate_s11"
          /\ c > Len(arg.s11)
          /\ OsmTermsOfLength(arg.calibration_dir, "osm_errors", c))
         => /\ out.ok /\ out.warn
            /\ Len(out.s11) = Len(arg.s11)
            /\ \A i \in 1..Len(arg.s11) :
                 out.s11[i] = OsmPoint(arg.s11, arg.calibration_dir, "osm_errors", i)
    /\ \A c \in 1..MaxLen :
         (/\ op = "normalization_calibrate_s21"
          /\ c > Len(arg.s21)
          /\ ThruTermOfLength(arg.calibration_dir, "normalization_errors", c))
         => /\ out.ok /\ out.warn
            /\ Len(out.s21) = Len(arg.s21)
            /\ \A i \in 1..Len(arg.s21) :
                 out.s21[i] = ThruPoint(arg.s21, arg.calibration_dir, "normalization_errors", i)

C13_Witness ==
    /\ op = "osm_calibrate_s11"
    /\ Len(arg.s11) = 2
    /\ OsmTermsOfLength(arg.calibration_dir, "osm_errors", 3)
    /\ out.ok /\ out.warn
    /\ Len(out.s11) = 2
    /\ \A i \in 1..2 : IsFinite(out.s11[i]) /\ out.s11[i] # arg.s11[i]

----------------------------------------------------------------------------
\* Properties of the 1-Port+N correction

\* C14: a 1-Port+N correction reads the OSM terms from osm_errors/ and divides
\* S21 by the term stored in 1-Port-N_errors/transmission_tracking.s2p, never
\* by the one of normalization_errors/; stated here for the 1-Port+N branch of
\* run_sweep.
C14_OnePortNDirectories ==
    (WizardCalibration /\ arg.cfg.Method = "1-Port+N" /\ out.ok)
    => /\ Range(OsmFiles(OsmResults)) \subseteq out.read
       /\ OnePortNFile(ThruResults) \in out.read
       /\ NormalizationFile(ThruResults) \notin out.read
       /\ ThruTermOfLength(ThruResults, "1-Port-N_errors", Len(arg.s21))
            => \A i \in 1..Len(arg.s21) :
                 out.s21[i] = ThruPoint(arg.s21, ThruResults, "1-Port-N_errors", i)

\* The file systems that differ from fsys at most in the OSM terms stored
\* under dir, and those that differ at most in the 1-Port+N THRU term
AltOsmTerms(fsys, dir) ==
    {[p \in DOMAIN fsys |->
        IF p \in Range(OsmFiles(dir))
        THEN (IF n < 0 THEN AbsentNet ELSE StoredNet(p, kind, n))
        ELSE fsys[p]] : kind \in Kinds, n \in -1..MaxLen}

AltThruTerm(fsys, dir) ==
    {[p \in DOMAIN fsys |->
        IF p = OnePortNFile(dir)
        THEN (IF n < 0 THEN AbsentNet ELSE StoredNet(p, kind, n))
        ELSE fsys[p]] : kind \in Kinds, n \in -1..MaxLen}

\* C15: in one_port_n_calibrate the two results are independent.  A call that
\* agrees with the call made on raw S21 and on the transmission-tracking term
\* returns the same corrected S21 whatever its raw S11 and its OSM terms are;
\* a call that agrees on raw S11 and on the OSM terms returns the same
\* corrected S11 whatever its raw S21 and its transmission-tracking term are.
C15_OnePortNIndependent ==
    (op = "one_port_n_calibrate" /\ out.ok)
    => /\ \A f2 \in AltOsmTerms(fs, arg.osm_dir), x \in RawVectors :
            LET r == one_port_n_calibrate(f2, x, arg.s21, arg.osm_dir, arg.thru_dir)
            IN  r.ok => r.s21 = out.s21
       /\ \A f2 \in AltThruTerm(fs, arg.thru_dir), y \in RawVectors :
            LET r == one_port_n_calibrate(f2, arg.s11, y, arg.osm_dir, arg.thru_dir)
            IN  r.ok => r.s11 = out.s11

\* a call with results of two points or more, and another call with other raw
\* S11 and other OSM terms whose corrected S11 differs at every index
C15_Witness ==
    /\ op = "one_port_n_calibrate" /\ out.ok
    /\ Len(out.s11) >= 2 /\ Len(out.s21) >= 2
    /\ \A i \in DOMAIN out.s21 : IsFinite(out.s21[i]) /\ out.s21[i] # arg.s21[i]
    /\ \E f2 \in AltOsmTerms(fs, arg.osm_dir), x \in RawVectors :
         LET r == one_port_n_calibrate(f2, x, arg.s21, arg.osm_dir, arg.thru_dir)
         IN  /\ r.ok /\ x # arg.s11 /\ f2 # fs
             /\ Len(r.s11) = Len(out.s11)
             /\ \A i \in DOMAIN out.s11 : r.s11[i] # out.s11[i]
             /\ r.s21 = out.s21

----------------------------------------------------------------------------
\* Algebraic properties of osm_calibrate_s11

\* The three OSM terms under dir/sub are stored with a common number of points
\* and are ideal at every point
OsmTermsIdeal(dir, sub) ==
    /\ \E c \in 0..MaxLen : OsmTermsOfLength(dir, sub, c)
    /\ \A i \in DOMAIN Directivity(dir, sub).s11 :
         /\ Directivity(dir, sub).s11[i] = CZero
         /\ SourceMatch(dir, sub).s11[i] = CZero
         /\ ReflectionTracking(dir, sub).s11[i] = COne

\* C16: with ideal OSM terms (directivity = 0, source_match = 0,
\* reflection_tracking = 1 at every point) osm_calibrate_s11 returns the raw
\* S11 vector, whatever the raw vector and its length are.
C16_IdealOsmIdentity ==
    (op = "osm_calibrate_s11" /\ OsmTermsIdeal(arg.calibration_dir, "osm_errors"))
    => (out.ok /\ out.s11 = arg.s11)

C16_Witness ==
    /\ op = "osm_calibrate_s11"
    /\ OsmTermsIdeal(arg.calibration_dir, "osm_errors")
    /\ OsmTermsOfLength(arg.calibration_dir, "osm_errors", Len(arg.s11))
    /\ Len(arg.s11) >= 2
    /\ \A i \in DOMAIN arg.s11 : arg.s11[i] # CZero
    /\ out.ok /\ out.s11 = arg.s11

\* C17: whenever osm_calibrate_s11 evaluates the OSM formula, raw S11,
\* directivity, reflection_tracking and source_match enter it with the same
\* length, whatever the point counts of the three stored files and of the
\* sweep are.
C17_FormulaInputsEqualLength ==
    (op = "osm_calibrate_s11" /\ OsmTermsStored(arg.calibration_dir, "osm_errors"))
    => LET t == OsmFormulaInputs(fs, arg.calibration_dir, arg.s11)
       IN  /\ Len(t.directivity) = Len(t.s11_med)
           /\ Len(t.reflection_tracking) = Len(t.s11_med)
           /\ Len(t.source_match) = Len(t.s11_med)

----------------------------------------------------------------------------
\* Frame properties of the correction operations

MethodsOps ==
    {"osm_calibrate_s11", "normalization_calibrate_s21", "one_port_n_calibrate",
     "enhanced_response_calibrate"}

----------------------------------------------------------------------------
\* One Methods instance called again and again (specification SpecCalls)

\* Calls explored on one instance
MaxCalls == 3

\* method(self, ...): the two single-parameter operations work on
\* self.calibration_dir, the composite ones on the directories they are passed
ApplyMethod(fsys, m, name, a) ==
    CASE name = "osm_calibrate_s11" -> osm_calibrate_s11(fsys, m.calibration_dir, a.s11)
      [] name = "normalization_calibrate_s21" ->
           normalization_calibrate_s21(fsys, m.calibration_dir, a.s21)
      [] name = "one_port_n_calibrate" ->
           one_port_n_calibrate(fsys, a.s11, a.s21, a.osm_dir, a.thru_dir)
      [] OTHER -> enhanced_response_calibrate(fsys, a.s11, a.s21, a.osm_dir, a.thru_dir)

\* The arguments of the calls explored: the raw S11 and the raw S21 of a sweep
\* of 0..MaxLen points, and the directories of run_sweep for the composite
\* operations
CallArgs(m, name) ==
    CASE name = "osm_calibrate_s11" ->
           {[NoArg EXCEPT !.s11 = RawVector("a", n), !.calibration_dir = m.calibration_dir,
                          !.s11_after = ArgumentAfterCall(RawVector("a", n))] : n \in 0..MaxLen}
      [] name = "normalization_calibrate_s21" ->
           {[NoArg EXCEPT !.s21 = RawVector("b", n), !.calibration_dir = m.calibration_dir,
                          !.s21_after = ArgumentAfterCall(RawVector("b", n))] : n \in 0..MaxLen}
      [] OTHER ->
           {[NoArg EXCEPT !.s11 = RawVector("a", n), !.s21 = RawVector("b", n),
                          !.osm_dir = OsmResults, !.thru_dir = ThruResults,
                          !.s11_after = ArgumentAfterCall(RawVector("a", n)),
                          !.s21_after = ArgumentAfterCall(RawVector("b", n))] : n \in 0..MaxLen}

Recorded(name, a, r) ==
    [calls |-> history.calls + 1,
     first |-> IF history.calls = 0 THEN [op |-> name, arg |-> a, out |-> r] ELSE history.first,
     mixed |-> \/ history.mixed
               \/ history.calls > 0 /\ (history.first.op # name \/ history.first.arg # a)]

\* A composite operation keeps the THRU directory it was passed on the instance
InstanceCall_keeps_directory(name) ==
    /\ history.calls < MaxCalls
    /\ \E a \in CallArgs(methods, name) :
         LET r == ApplyMethod(fs, methods, name, a)
         IN  /\ op' = name
             /\ arg' = a
             /\ out' = r
             /\ history' = Recorded(name, a, r)
             /\ methods' = IF a.thru_dir # <<>> THEN [calibration_dir |-> a.thru_dir]
                            ELSE methods
    /\ UNCHANGED <<fs, settings, dut, vna_device, freqs, s11, s21, sweep_button_enabled,
                   sweep_progress_visible, reconnect_button_enabled, reset_timer, sweep_result,
                   nsweeps, dialog, latex_env, appvars>>

\* A call of the operation `name` on the instance: no attribute is assigned,
\* no file is written
InstanceCall(name) ==
    /\ history.calls < MaxCalls
    /\ \E a \in CallArgs(methods, name) :
         LET r == ApplyMethod(fs, methods, name, a)
         IN  /\ op' = name
             /\ arg' = a
             /\ out' = r
             /\ history' = Recorded(name, a, r)
    /\ UNCHANGED <<fs, methods, settings, dut, vna_device, freqs, s11, s21,
                   sweep_button_enabled, sweep_progress_visible, reconnect_button_enabled,
                   reset_timer, sweep_result, nsweeps, dialog, latex_env, appvars>>

\* methods = Methods(calibration_dir)
InitCalls ==
    /\ fs \in SweepFileSystems
    /\ op = "none"
    /\ arg = NoArg
    /\ out = NoOut
    /\ settings = DefaultSettings
    /\ dut = NoDut
    /\ vna_device = "none"
    /\ freqs = <<>> /\ s11 = <<>> /\ s21 = <<>>
    /\ sweep_button_enabled = TRUE
    /\ sweep_progress_visible = FALSE
    /\ reconnect_button_enabled = TRUE
    /\ reset_timer = FALSE
    /\ sweep_result = "none"
    /\ nsweeps = 0
    /\ methods \in {[calibration_dir |-> dir] : dir \in CalDirs}
    /\ history = NoHistory
    /\ dialog = NoDialog
    /\ latex_env = "None"
    /\ InitApp

NextCalls ==
    \/ InstanceCall("osm_calibrate_s11")
    \/ InstanceCall("normalization_calibrate_s21")
    \/ InstanceCall("one_port_n_calibrate")
    \/ InstanceCall("enhanced_response_calibrate")

SpecCalls == InitCalls /\ [][NextCalls]_vars

\* C19: the calibration core keeps no state between calls.  A call leaves the
\* calibration_dir of the instance and the stored files as they were, and a
\* call that repeats the first call made on the instance (same operation, same
\* arguments) has the outcome of the first call, whatever calls were made in
\* between.
RepeatsFirstCall == history.calls > 1 /\ op = history.first.op /\ arg = history.first.arg

----------------------------------------------------------------------------
\* class LaTeXExportDialog (ui/export/latex_export_dialog.py), specification
\* SpecLatex.  A file name is <<stem, suffix>>, the empty string is <<>>; the
\* manual compiler is the name of the executable, "None" for None.

\* What _find_latex_compiler returns on the machines explored: nothing, a
\* compiler that works, a compiler that fails its test
SystemCompilers == {"None", "pdflatex", "lualatex"}

\* The executables a user picks in the file dialog
ManualFiles == {"/opt/texlive/bin/xelatex", "/opt/miktex/bin/pdflatex", "/usr/bin/notepad"}

\* _test_latex_compiler(compiler_path): the test document compiles
test_latex_compiler(compiler_path) ==
    compiler_path \in {"pdflatex", "/opt/texlive/bin/xelatex", "/opt/miktex/bin/pdflatex"}

\* The names a user types in the save dialog; <<>> is a cancelled dialog
OutputNames == {<<>>, <<"nanovna_report", "">>, <<"run1", ".pdf">>, <<"run1", ".txt">>}

\* str(Path(filename).with_suffix('.pdf'))
with_suffix_pdf(filename) == <<filename[1], ".pdf">>

\* LaTeXCheckerThread.run: the arguments of the finished signal
CheckerResult(found) ==
    IF found = "None" THEN [success |-> FALSE, error_message |-> "No LaTeX compiler found"]
    ELSE IF test_latex_compiler(found) THEN [success |-> TRUE, error_message |-> ""]
    ELSE [success |-> FALSE, error_message |-> "Compiler found but not working properly"]

\* _update_export_button_state
update_export_button_state(d) ==
    [d EXCEPT !.export_button_enabled = d.latex_available /\ d.output_path # <<>>]

dialogframe ==
    <<fs, op, arg, out, settings, dut, vna_device, freqs, s11, s21, sweep_button_enabled,
      sweep_progress_visible, reconnect_button_enabled, reset_timer, sweep_result, nsweeps,
      methods, history, latex_env, appvars>>

\* LaTeXExportDialog(parent, default_filename): __init__, _setup_ui and
\* _start_latex_check
NewDialog ==
    [state |-> "open", latex_available |-> FALSE, output_path |-> <<>>,
     manual_compiler_path |-> "None", checker |-> "running", check_success |-> FALSE,
     status_label |-> "Checking LaTeX installation...", download_visible |-> FALSE,
     export_button_enabled |-> FALSE]

\* The finished signal of the checker thread reaches the dialog
on_latex_check_finished ==
    /\ dialog.state = "open" /\ dialog.checker = "running"
    /\ \E r \in {CheckerResult(latex_env), [success |-> FALSE, error_message |-> "Error checking LaTeX"]} :
         dialog' = update_export_button_state(
                     IF r.success
                     THEN [dialog EXCEPT !.checker = "finished", !.check_success = TRUE,
                                         !.latex_available = TRUE,
                                         !.status_label = "LaTeX Compiler: Available"]
                     ELSE [dialog EXCEPT !.checker = "finished", !.check_success = FALSE,
                                         !.latex_available = FALSE,
                                         !.status_label = "LaTeX Compiler: Not Available",
                                         !.download_visible = TRUE])
    /\ UNCHANGED dialogframe

\* The user clicks "Browse..." and names the output file, or cancels
browse_output_path ==
    /\ dialog.state = "open"
    /\ \E filename \in OutputNames :
         dialog' = update_export_button_state(
                     IF filename # <<>>
                     THEN [dialog EXCEPT !.output_path = with_suffix_pdf(filename)]
                     ELSE dialog)
    /\ UNCHANGED dialogframe

\* The user clicks "Browse for Compiler..." and picks an executable, or cancels
browse_manual_compiler ==
    /\ dialog.state = "open"
    /\ \E filename \in ManualFiles \cup {""} :
         dialog' = update_export_button_state(
                     IF filename = "" THEN dialog
                     ELSE IF test_latex_compiler(filename)
                     THEN [dialog EXCEPT !.manual_compiler_path = filename,
                                         !.latex_available = TRUE,
                                         !.status_label = "LaTeX Compiler: Manual Selection"]
                     ELSE [dialog EXCEPT !.manual_compiler_path = "None",
                                         !.status_label = "LaTeX Compiler: Invalid Selection"])
    /\ UNCHANGED dialogframe

\* export_button.clicked -> accept
accept ==
    /\ dialog.state = "open" /\ dialog.export_button_enabled
    /\ dialog' = [dialog EXCEPT !.state = "accepted"]
    /\ UNCHANGED dialogframe

\* cancel_button.clicked -> reject
reject ==
    /\ dialog.state = "open"
    /\ dialog' = [dialog EXCEPT !.state = "rejected"]
    /\ UNCHANGED dialogframe

\* The window is closed: closeEvent terminates a checker that still runs
closeEvent ==
    /\ dialog.state = "open"
    /\ dialog' = [dialog EXCEPT !.state = "rejected",
                                 !.checker = IF dialog.checker = "running" THEN "terminated"
                                             ELSE dialog.checker]
    /\ UNCHANGED dialogframe

InitLatex ==
    /\ fs = [p \in FileIds |-> AbsentNet]
    /\ op = "none"
    /\ arg = NoArg
    /\ out = NoOut
    /\ settings = DefaultSettings
    /\ dut = NoDut
    /\ vna_device = "none"
    /\ freqs = <<>> /\ s11 = <<>> /\ s21 = <<>>
    /\ sweep_button_enabled = TRUE
    /\ sweep_progress_visible = FALSE
    /\ reconnect_button_enabled = TRUE
    /\ reset_timer = FALSE
    /\ sweep_result = "none"
    /\ nsweeps = 0
    /\ methods = NoMethods
    /\ history = NoHistory
    /\ dialog = NewDialog
    /\ latex_env \in SystemCompilers
    /\ InitApp

NextLatex ==
    \/ on_latex_check_finished
    \/ browse_output_path
    \/ browse_manual_compiler
    \/ accept
    \/ reject
    \/ closeEvent

SpecLatex == InitLatex /\ [][NextLatex]_vars

\* is_latex_available()
is_latex_available == dialog.latex_available

\* C20: in every reachable state of the dialog, is_latex_available() is True
\* only if a working compiler is known: the background check reported success,
\* or manual_compiler_path holds a compiler that passed its test.
C20_AvailableOnlyIfCompilerKnown ==
    (dialog.state # "none" /\ is_latex_available)
    => \/ dialog.check_success
       \/ /\ dialog.manual_compiler_path # "None"
          /\ test_latex_compiler(dialog.manual_compiler_path)

----------------------------------------------------------------------------
\* SweepOptionsWindow (ui/sweep_window/sweep_options_window.py) with the
\* config.ini it writes and the configuration the main window loads from it.
\* A QDoubleSpinBox keeps its value rounded to its decimals and inside its
\* range, and emits valueChanged only when the value changes; a QComboBox
\* emits currentTextChanged only when the text changes; slots run in the
\* order they were connected.

Units == {"Hz", "kHz", "MHz", "GHz"}

\* unit_multiplier(unit) = 10^UnitExp(unit)
UnitExp(unit) == CASE unit = "Hz" -> 0 [] unit = "kHz" -> 3 [] unit = "MHz" -> 6 [] OTHER -> 9

frequency_to_hz(value, unit) == DShift(value, UnitExp(unit))

hz_to_frequency(hz_value, target_unit) == DShift(hz_value, 0 - UnitExp(target_unit))

\* get_frequency_limits: the fallback limits, 50 kHz and 1.5 GHz
freq_min_hz == <<5, 4>>
freq_max_hz == <<15, 8>>

\* update_spinbox_range: spinbox.setRange(min * 0.5, max * 1.5) in the unit
update_spinbox_range(unit) ==
    [lo |-> DRound(DShift(DTimes(hz_to_frequency(freq_min_hz, unit), 5), 0 - 1), 3),
     hi |-> DRound(DShift(DTimes(hz_to_frequency(freq_max_hz, unit), 15), 0 - 1), 3)]

\* QDoubleSpinBox with setDecimals(3): the value a setValue(v) leaves
SpinValue(v, unit) ==
    DBound(DRound(v, 3), update_spinbox_range(unit).lo, update_spinbox_range(unit).hi)

\* SmartDatapointsSpinBox.set_valid_datapoints with the default points
valid_datapoints == {11, 51, 101, 201, 301, 501, 1023}

SegmentsValue(n) == IF n < 11 THEN 11 ELSE IF n > 1023 THEN 1023 ELSE n

\* NanoVNAGraphics.load_sweep_configuration on the main window `main`
load_sweep_configuration(cfg, main) ==
    IF cfg.freq_stored \/ cfg.segments_stored
    THEN [start_freq_hz |-> DTrunc(IF cfg.freq_stored THEN cfg.StartFreqHz ELSE <<5, 4>>),
          stop_freq_hz  |-> DTrunc(IF cfg.freq_stored THEN cfg.StopFreqHz ELSE <<15, 8>>),
          segments      |-> IF cfg.segments_stored THEN cfg.Segments ELSE 101,
          start_unit    |-> IF cfg.freq_stored THEN cfg.StartUnit ELSE "kHz",
          stop_unit     |-> IF cfg.freq_stored THEN cfg.StopUnit ELSE "GHz"]
    ELSE [main EXCEPT !.start_freq_hz = <<5, 4>>, !.stop_freq_hz = <<15, 8>>, !.segments = 101]

\* The window, the file and the main window taken together: [w, cfg, main]
\* on_frequency_changed after initialisation: the frequencies and units are
\* saved and the main window reloads
on_frequency_changed(g) ==
    [g EXCEPT !.cfg = [g.cfg EXCEPT !.freq_stored = TRUE,
                                    !.StartFreqHz = frequency_to_hz(g.w.start_freq, g.w.start_unit),
                                    !.StopFreqHz = frequency_to_hz(g.w.stop_freq, g.w.stop_unit),
                                    !.StartUnit = g.w.start_unit,
                                    !.StopUnit = g.w.stop_unit],
              !.main = load_sweep_configuration(
                           [g.cfg EXCEPT !.freq_stored = TRUE,
                                         !.StartFreqHz = frequency_to_hz(g.w.start_freq, g.w.start_unit),
                                         !.StopFreqHz = frequency_to_hz(g.w.stop_freq, g.w.stop_unit),
                                         !.StartUnit = g.w.start_unit,
                                         !.StopUnit = g.w.stop_unit], g.main)]

\* on_segments_changed after initialisation
on_segments_changed(g) ==
    [g EXCEPT !.cfg = [g.cfg EXCEPT !.segments_stored = TRUE, !.Segments = g.w.segments],
              !.main = load_sweep_configuration(
                           [g.cfg EXCEPT !.segments_stored = TRUE, !.Segments = g.w.segments],
                           g.main)]

\* self.start_freq_edit.setValue(v)
SetStartFreq(g, v) ==
    IF SpinValue(v, g.w.start_unit) = g.w.start_freq THEN g
    ELSE on_frequency_changed([g EXCEPT !.w.start_freq = SpinValue(v, g.w.start_unit)])

\* self.stop_freq_edit.setValue(v)
SetStopFreq(g, v) ==
    IF SpinValue(v, g.w.stop_unit) = g.w.stop_freq THEN g
    ELSE on_frequency_changed([g EXCEPT !.w.stop_freq = SpinValue(v, g.w.stop_unit)])

\* self.start_freq_unit.setCurrentText(unit): on_frequency_changed, then
\* update_spinbox_range, whose setRange moves a value that is out of range
SetStartUnit(g, unit) ==
    IF unit = g.w.start_unit THEN g
    ELSE SetStartFreq(on_frequency_changed([g EXCEPT !.w.start_unit = unit]), g.w.start_freq)

\* self.stop_freq_unit.setCurrentText(unit)
SetStopUnit(g, unit) ==
    IF unit = g.w.stop_unit THEN g
    ELSE SetStopFreq(on_frequency_changed([g EXCEPT !.w.stop_unit = unit]), g.w.stop_freq)

\* self.segments_spinbox.setValue(n)
SetSegments(g, n) ==
    IF SegmentsValue(n) = g.w.segments THEN g
    ELSE on_segments_changed([g EXCEPT !.w.segments = SegmentsValue(n)])

\* closeEvent: the main window reloads
CloseWindow(g, how) ==
    [g EXCEPT !.w.state = how, !.main = load_sweep_configuration(g.cfg, g.main)]

\* cancel_changes: start value, start unit, stop value, stop unit, segments
\* are set back in this order, then self.close()
cancel_changes(g) ==
    CloseWindow(SetSegments(SetStopUnit(SetStopFreq(SetStartUnit(SetStartFreq(g,
        g.w.original_values.start_freq), g.w.original_values.start_unit),
        g.w.original_values.stop_freq), g.w.original_values.stop_unit),
        g.w.original_values.segments), "cancelled")

\* save_settings
save_settings(g) ==
    [g EXCEPT !.cfg = [freq_stored |-> TRUE,
                       StartFreqHz |-> frequency_to_hz(g.w.start_freq, g.w.start_unit),
                       StopFreqHz |-> frequency_to_hz(g.w.stop_freq, g.w.stop_unit),
                       StartUnit |-> g.w.start_unit, StopUnit |-> g.w.stop_unit,
                       segments_stored |-> TRUE, Segments |-> g.w.segments]]

\* load_max_frequency: Limits/MaxFrequencyHz, 6 GHz when not stored
max_frequency_hz == <<6, 9>>

\* apply_settings passes its three validations
ApplyValid(w) ==
    /\ DLess(frequency_to_hz(w.start_freq, w.start_unit), frequency_to_hz(w.stop_freq, w.stop_unit))
    /\ ~DLess(max_frequency_hz, frequency_to_hz(w.stop_freq, w.stop_unit))
    /\ w.segments >= 11 /\ w.segments <= 1023

\* SweepOptionsWindow(parent): init_ui, load_settings with auto-saving off,
\* store_original_values
WindowOpened(cfg) ==
    [state      |-> "open",
     start_unit |-> cfg.StartUnit,
     start_freq |-> SpinValue(hz_to_frequency(IF cfg.freq_stored THEN cfg.StartFreqHz
                                               ELSE <<5, 4>>, cfg.StartUnit), cfg.StartUnit),
     stop_unit  |-> cfg.StopUnit,
     stop_freq  |-> SpinValue(hz_to_frequency(IF cfg.freq_stored THEN cfg.StopFreqHz
                                              ELSE <<15, 8>>, cfg.StopUnit), cfg.StopUnit),
     segments   |-> SegmentsValue(IF cfg.segments_stored THEN cfg.Segments ELSE 100),
     original_values |-> <<>>, opened_with |-> <<>>]

store_original_values(w) ==
    [w EXCEPT !.original_values =
        [start_freq |-> w.start_freq, start_unit |-> w.start_unit, stop_freq |-> w.stop_freq,
         stop_unit |-> w.stop_unit, segments |-> w.segments]]

optionsframe ==
    <<fs, op, arg, out, settings, dut, vna_device, freqs, s11, s21, sweep_button_enabled,
      sweep_progress_visible, reconnect_button_enabled, reset_timer, sweep_result, nsweeps,
      methods, history, dialog, latex_env, exporter, kit_groups>>

TheWindow == [w |-> sweep_options, cfg |-> sweep_config, main |-> main_config]

Becomes(g) ==
    /\ sweep_options' = g.w
    /\ sweep_config' = g.cfg
    /\ main_config' = g.main
    /\ UNCHANGED optionsframe

\* The main window opens the Sweep Options window (one window is followed
\* from its construction to its closing)
open_sweep_options ==
    /\ sweep_options.state = "none"
    /\ sweep_options' = [store_original_values(WindowOpened(sweep_config)) EXCEPT
                            !.opened_with = [cfg |-> sweep_config, main |-> main_config]]
    /\ UNCHANGED <<sweep_config, main_config, optionsframe>>

\* Values a user types into the frequency fields
FreqEdits == {<<5, 1>>, <<15, 0 - 1>>, <<9, 2>>}

edit_start_freq ==
    /\ sweep_options.state = "open"
    /\ \E v \in FreqEdits : Becomes(SetStartFreq(TheWindow, v))

edit_stop_freq ==
    /\ sweep_options.state = "open"
    /\ \E v \in FreqEdits : Becomes(SetStopFreq(TheWindow, v))

edit_start_unit ==
    /\ sweep_options.state = "open"
    /\ \E u \in Units : Becomes(SetStartUnit(TheWindow, u))

edit_stop_unit ==
    /\ sweep_options.state = "open"
    /\ \E u \in Units : Becomes(SetStopUnit(TheWindow, u))

\* Segment counts explored
SegmentEdits == {51, 101}

edit_segments ==
    /\ sweep_options.state = "open"
    /\ \E n \in SegmentEdits : Becomes(SetSegments(TheWindow, n))

\* The Cancel button
cancel_clicked ==
    /\ sweep_options.state = "open"
    /\ Becomes(cancel_changes(TheWindow))

\* The Apply button: nothing happens unless the values are valid
apply_settings ==
    /\ sweep_options.state = "open"
    /\ IF ApplyValid(sweep_options)
       THEN Becomes(CloseWindow(save_settings(TheWindow), "applied"))
       ELSE UNCHANGED vars

\* The "Reset to Defaults" button, confirmed with Yes
reset_to_defaults ==
    /\ sweep_options.state = "open"
    /\ Becomes(SetSegments(SetStopFreq(SetStopUnit(SetStartFreq(SetStartUnit(TheWindow,
            "kHz"), <<5, 1>>), "GHz"), <<15, 0 - 1>>), 101))

\* The window is closed by its title bar
close_window ==
    /\ sweep_options.state = "open"
    /\ Becomes(CloseWindow(TheWindow, "closed"))

\* What earlier sessions left in config.ini: nothing, or what save_settings wrote
SavedSweepConfigs ==
    {NoSweepConfig} \cup
    {[freq_stored |-> TRUE, StartFreqHz |-> frequency_to_hz(a[1], a[2]), StartUnit |-> a[2],
      StopFreqHz |-> frequency_to_hz(b[1], b[2]), StopUnit |-> b[2],
      segments_stored |-> TRUE, Segments |-> n] :
        a \in {<<(<<5, 1>>), "kHz">>, <<(<<1, 0>>), "MHz">>},
        b \in {<<(<<15, 0 - 1>>), "GHz">>, <<(<<9, 2>>), "MHz">>},
        n \in {101, 201}}

InitOptions ==
    /\ fs = [p \in FileIds |-> AbsentNet]
    /\ op = "none"
    /\ arg = NoArg
    /\ out = NoOut
    /\ settings = DefaultSettings
    /\ dut = NoDut
    /\ vna_device = "none"
    /\ freqs = <<>> /\ s11 = <<>> /\ s21 = <<>>
    /\ sweep_button_enabled = TRUE
    /\ sweep_progress_visible = FALSE
    /\ reconnect_button_enabled = TRUE
    /\ reset_timer = FALSE
    /\ sweep_result = "none"
    /\ nsweeps = 0
    /\ methods = NoMethods
    /\ history = NoHistory
    /\ dialog = NoDialog
    /\ latex_env = "None"
    /\ exporter = NoExporter
    /\ kit_groups = NoKits
    /\ sweep_options = NoSweepOptions
    /\ sweep_config \in SavedSweepConfigs
    /\ main_config = load_sweep_configuration(sweep_config, DefaultMainConfig)

NextOptions ==
    \/ open_sweep_options
    \/ edit_start_freq
    \/ edit_stop_freq
    \/ edit_start_unit
    \/ edit_stop_unit
    \/ edit_segments
    \/ cancel_clicked
    \/ apply_settings
    \/ reset_to_defaults
    \/ close_window

SpecOptions == InitOptions /\ [][NextOptions]_vars

\* The five settings as load_settings reads them from config.ini
PersistedSweepSettings(cfg) ==
    [StartFreqHz |-> IF cfg.freq_stored THEN cfg.StartFreqHz ELSE <<5, 4>>,
     StopFreqHz  |-> IF cfg.freq_stored THEN cfg.StopFreqHz ELSE <<15, 8>>,
     StartUnit   |-> cfg.StartUnit,
     StopUnit    |-> cfg.StopUnit,
     Segments    |-> IF cfg.segments_stored THEN cfg.Segments ELSE 100]

\* C21: after cancel_changes the persisted sweep settings and the main window's
\* loaded sweep configuration are what they were when the window was opened.
C21_CancelRestores ==
    sweep_options.state = "cancelled" =>
        /\ PersistedSweepSettings(sweep_config) =
               PersistedSweepSettings(sweep_options.opened_with.cfg)
        /\ main_config = sweep_options.opened_with.main

----------------------------------------------------------------------------
\* LatexExporter (exporters/latex_exporter.py)

\* Values of measurement_numbers.ini: a date string or a number
DateVal(d) == <<"date", d>>
IntVal(n) == <<"int", n>>

\* Calendar dates and exports followed
MaxDays == 2
MaxExports == 3

\* _get_calibration_info(measurement_name) on the date current_date: the
\* measurement number returned and the tracking file left
get_calibration_info(tracking, current_date, measurement_name) ==
    IF tracking["LastResetDate"] # DateVal(current_date)
    THEN [number |-> 1,
          tracking |-> [k \in Names |-> IF k = measurement_name THEN IntVal(1)
                                        ELSE IF k = "LastResetDate" THEN DateVal(current_date)
                                        ELSE Absent]]
    ELSE IF tracking[measurement_name] = Absent
    THEN [number |-> 1, tracking |-> [tracking EXCEPT ![measurement_name] = IntVal(1)]]
    ELSE IF tracking[measurement_name][1] = "int"
    THEN [number |-> tracking[measurement_name][2] + 1,
          tracking |-> [tracking EXCEPT ![measurement_name] =
                            IntVal(tracking[measurement_name][2] + 1)]]
    ELSE \* int() of a date string raises ValueError: the fallback values
         [number |-> 1, tracking |-> tracking]

\* check_latex_installation: is_available
check_latex_installation(found) == found # "None" /\ test_latex_compiler(found)

\* What an export meets: plots or document generation may raise
Generations == {"ok", "plots_raise", "generate_pdf_raises"}

\* An export request: data is whether freqs, s11_data and s21_data are given;
\* output_path "None" opens the file dialog, whose answer is filename ("" when
\* the dialog is cancelled)
Requests ==
    [data : BOOLEAN, measurement_name : Names, output_path : {"None", "report"},
     filename : {"", "dut"}, generation : Generations]

\* file_path: Path(output_path).with_suffix(''), or that of the dialog's answer
FilePath(q) == IF q.output_path = "None" THEN q.filename ELSE q.output_path

\* The call recorded with the numbering it did
Numbered(ex, opname, name, result) ==
    [ex EXCEPT !.state = "made",
               !.ncalls = ex.ncalls + 1,
               !.tracking = get_calibration_info(ex.tracking, ex.today, name).tracking,
               !.made = [ex.made EXCEPT ![name] = ex.made[name] + 1],
               !.last = [op |-> opname, name |-> name, result |-> result, numbered |-> TRUE,
                         number |-> get_calibration_info(ex.tracking, ex.today, name).number]]

\* The call recorded, _get_calibration_info not reached
Unnumbered(ex, opname, name, result) ==
    [ex EXCEPT !.state = "made",
               !.ncalls = ex.ncalls + 1,
               !.last = [op |-> opname, name |-> name, result |-> result, numbered |-> FALSE,
                         number |-> 0]]

\* export_to_pdf with self.figures: file path, compiler check,
\* _generate_plots_from_figures and _create_latex_document_with_compiler, the
\* last two outside any try block
export_figures(ex, q, found) ==
    IF FilePath(q) = "" THEN Unnumbered(ex, "export_to_pdf", q.measurement_name, "False")
    ELSE IF ~check_latex_installation(found)
    THEN Unnumbered(ex, "export_to_pdf", q.measurement_name, "False")
    ELSE IF q.generation = "plots_raise"
    THEN Unnumbered(ex, "export_to_pdf", q.measurement_name, "raised")
    ELSE IF q.generation = "generate_pdf_raises"
    THEN Numbered(ex, "export_to_pdf", q.measurement_name, "raised")
    ELSE Numbered(ex, "export_to_pdf", q.measurement_name, "True")

\* export_to_pdf without figures: data check, compiler check, file path, then
\* _generate_plots and _create_latex_document inside try/except; the document
\* is numbered under file_path.name
export_data(ex, q, found) ==
    IF ~q.data THEN Unnumbered(ex, "export_to_pdf", q.measurement_name, "False")
    ELSE IF ~check_latex_installation(found)
    THEN Unnumbered(ex, "export_to_pdf", q.measurement_name, "False")
    ELSE IF FilePath(q) = "" THEN Unnumbered(ex, "export_to_pdf", q.measurement_name, "False")
    ELSE IF q.generation = "plots_raise"
    THEN Unnumbered(ex, "export_to_pdf", FilePath(q), "False")
    ELSE IF q.generation = "generate_pdf_raises"
    THEN Numbered(ex, "export_to_pdf", FilePath(q), "False")
    ELSE Numbered(ex, "export_to_pdf", FilePath(q), "True")

exportframe ==
    <<fs, op, arg, out, settings, dut, vna_device, freqs, s11, s21, sweep_button_enabled,
      sweep_progress_visible, reconnect_button_enabled, reset_timer, sweep_result, nsweeps,
      methods, history, dialog, latex_env, sweep_options, sweep_config, main_config, kit_groups>>

\* LatexExporter(parent_widget, figures).export_to_pdf(...)
export_to_pdf ==
    /\ exporter.ncalls < MaxExports
    /\ \E q \in Requests, figures \in {0, 2} :
         exporter' = IF figures > 0
                     THEN export_figures([exporter EXCEPT !.figures = figures], q, latex_env)
                     ELSE export_data([exporter EXCEPT !.figures = figures], q, latex_env)
    /\ UNCHANGED exportframe

\* _get_calibration_info called for a document
call_get_calibration_info ==
    /\ exporter.ncalls < MaxExports
    /\ \E name \in Names :
         exporter' = Numbered(exporter, "_get_calibration_info", name, "none")
    /\ UNCHANGED exportframe

\* Midnight passes
next_day ==
    /\ exporter.today < MaxDays
    /\ exporter' = [exporter EXCEPT !.today = exporter.today + 1,
                                    !.made = [k \in Names |-> 0]]
    /\ UNCHANGED exportframe

InitExport ==
    /\ fs = [p \in FileIds |-> AbsentNet]
    /\ op = "none"
    /\ arg = NoArg
    /\ out = NoOut
    /\ settings = DefaultSettings
    /\ dut = NoDut
    /\ vna_device = "none"
    /\ freqs = <<>> /\ s11 = <<>> /\ s21 = <<>>
    /\ sweep_button_enabled = TRUE
    /\ sweep_progress_visible = FALSE
    /\ reconnect_button_enabled = TRUE
    /\ reset_timer = FALSE
    /\ sweep_result = "none"
    /\ nsweeps = 0
    /\ methods = NoMethods
    /\ history = NoHistory
    /\ dialog = NoDialog
    /\ latex_env \in SystemCompilers
    /\ sweep_options = NoSweepOptions
    /\ sweep_config = NoSweepConfig
    /\ main_config = DefaultMainConfig
    /\ kit_groups = NoKits
    /\ exporter = NoExporter

NextExport ==
    \/ export_to_pdf
    \/ call_get_calibration_info
    \/ next_day

SpecExport == InitExport /\ [][NextExport]_vars

\* C22: export_to_pdf ends with the return value True or False on both of its
\* paths, never with an exception reaching the caller.
C22_AlwaysReturnsBoolean ==
    exporter.last.op = "export_to_pdf" => exporter.last.result \in {"True", "False"}

\* C23: on one date the k-th call of _get_calibration_info with a name returns
\* k, whatever calls were made with other names, and the first call on a new
\* date leaves no counter but its own.
C23_DailyNumbering ==
    (exporter.last.numbered /\ exporter.made[exporter.last.name] > 0) =>
        /\ exporter.last.number = exporter.made[exporter.last.name]
        /\ \A k \in Names \ {"LastResetDate"} :
               exporter.made[k] = 0 => exporter.tracking[k] = Absent

----------------------------------------------------------------------------
\* The LaTeX export dialog and its background checker (specification SpecLatex)

\* C24: whenever manual_compiler_path is set, latex_available is True and
\* Export is enabled as soon as an output path is chosen, whatever the order of
\* the checker's finished signal and the manual selection.
C24_ManualSelectionKept ==
    (dialog.state = "open" /\ dialog.manual_compiler_path # "None") =>
        /\ dialog.latex_available
        /\ dialog.output_path # <<>> => dialog.export_button_enabled

----------------------------------------------------------------------------
\* The calibration kits of calibration_config.ini: the Kit_<id> groups and the
\* [Calibration] keys Name, Method, Kits and NoCalibration that name the kit in
\* use.  kit_groups[i] is the group Kit_<i>; a name is the sequence of its
\* "_"-separated parts, so f"{name}_{id}" appends the id as the last part.

MaxKits == 3

KitNames == {<<"kitA">>, <<"kitB">>, <<"my", "kit">>}

KitMethods == {"OSM (Open - Short - Match)", "Normalization"}

KitDates == {"", "2025-01-01 10:00:00", "2025-02-02 11:00:00"}

\* f"{name}_{id}"
WithId(name, id) == Append(name, ToString(id))

\* "_".join(current_full_name.split("_")[:-1])
NameBase(full_name) == IF Len(full_name) = 0 THEN <<>> ELSE SubSeq(full_name, 1, Len(full_name) - 1)

\* kits_info[name]: a later group of the same name replaces an earlier one
KitsInfo(groups, name) ==
    LET idx == CHOOSE i \in 1..Len(groups) :
                   /\ groups[i].kit_name = name
                   /\ \A j \in (i + 1)..Len(groups) : groups[j].kit_name # name
    IN  groups[idx]

\* kit_names.index(kit_name): the first group of that name
FirstNamed(groups, name) ==
    LET idx == CHOOSE i \in 1..Len(groups) :
                   /\ groups[i].kit_name = name
                   /\ \A j \in 1..(i - 1) : groups[j].kit_name # name
    IN  groups[idx]

\* select_kit_dialog.select_kit: the chosen kit becomes the one in use
select_kit(cal, groups, name) ==
    LET kit_info == KitsInfo(groups, name)
    IN  [cal EXCEPT !.Name = WithId(name, kit_info.id),
                    !.Method = kit_info.method,
                    !.Kits = TRUE,
                    !.NoCalibration = FALSE]

\* remaining_kits.sort(key=lambda x: x[0]): a stable sort on the stored id
RECURSIVE InsertById(_, _)
InsertById(sorted, kit) ==
    IF sorted = <<>> THEN <<kit>>
    ELSE IF Head(sorted).id <= kit.id THEN <<Head(sorted)>> \o InsertById(Tail(sorted), kit)
    ELSE <<kit>> \o sorted

RECURSIVE SortById(_)
SortById(kits) ==
    IF kits = <<>> THEN <<>> ELSE InsertById(SortById(SubSeq(kits, 1, Len(kits) - 1)), kits[Len(kits)])

\* handle_deleted_current_kit: Kit_1 is put in use; Method is written back as
\* it was read (the method of Kit_1 only when [Calibration] has no Method)
handle_deleted_current_kit(cal, groups) ==
    IF Len(groups) >= 1
    THEN [cal EXCEPT !.Kits = TRUE,
                     !.NoCalibration = FALSE,
                     !.Method = IF cal.Method = DefaultSettings.Method THEN groups[1].method ELSE cal.Method,
                     !.Name = WithId(groups[1].kit_name, 1)]
    ELSE [cal EXCEPT !.Kits = FALSE, !.NoCalibration = TRUE, !.Name = DefaultSettings.Name]

\* handle_all_kits_deleted: no calibration is in use
handle_all_kits_deleted(cal) ==
    [cal EXCEPT !.Kits = FALSE, !.NoCalibration = TRUE, !.Name = DefaultSettings.Name]

\* The groups delete_selected writes back: new ids in the sorted order, and
\* for every group the DateTime_Kits that the reading loop read last
Renumbered(remaining_kits, date_time_Kits) ==
    [new_id \in 1..Len(remaining_kits) |->
        [kit_name |-> remaining_kits[new_id].kit_name,
         method |-> remaining_kits[new_id].method,
         id |-> new_id,
         DateTime_Kits |-> date_time_Kits]]

\* The [Calibration] section delete_selected leaves, before the handlers run
DeleteUpdatesCalibration(cal, remaining_kits) ==
    IF remaining_kits # <<>>
    THEN [cal EXCEPT !.Name = WithId(remaining_kits[1].kit_name, 1),
                     !.Kits = TRUE,
                     !.NoCalibration = FALSE]
    ELSE [cal EXCEPT !.Name = DefaultSettings.Name, !.Kits = FALSE, !.NoCalibration = TRUE]

\* The handler delete_selected ends with
DeleteNavigates(cal, groups, was_current_deleted) ==
    IF was_current_deleted = "True" THEN handle_deleted_current_kit(cal, groups)
    ELSE IF was_current_deleted = "all" THEN handle_all_kits_deleted(cal)
    ELSE cal

Keeps(kit, selected_names) == kit.kit_name \notin selected_names

\* delete_kit_dialog.delete_selected, confirmed with Yes
delete_selected(cal, groups, selected_names) ==
    LET current_name_base == NameBase(cal.Name)
        deleted_current_kit == \E i \in 1..Len(groups) :
                                   /\ groups[i].kit_name \in selected_names
                                   /\ groups[i].kit_name = current_name_base
        left == SelectSeq(groups, LAMBDA kit : Keeps(kit, selected_names))
        remaining_kits == SortById(left)
        date_time_Kits == IF left = <<>> THEN "" ELSE left[Len(left)].DateTime_Kits
        was_current_deleted == IF remaining_kits = <<>> THEN "all"
                               ELSE IF deleted_current_kit THEN "True" ELSE "False"
        written == Renumbered(remaining_kits, date_time_Kits)
    IN  [groups |-> written,
         cal |-> DeleteNavigates(DeleteUpdatesCalibration(cal, remaining_kits), written, was_current_deleted)]

\* save_calibration_dialog (welcome_windows.py and graphics_window.py), the
\* first save of a window: the kit is stored under the next free id and put
\* in use; Calibration/Method is not written
save_calibration_dialog(cal, groups, name, selected_method, current_datetime) ==
    LET next_id == Len(groups) + 1
    IN  [groups |-> Append(groups, [kit_name |-> name, method |-> selected_method, id |-> next_id,
                                    DateTime_Kits |-> current_datetime]),
         cal |-> [cal EXCEPT !.Name = WithId(name, next_id), !.Kits = TRUE, !.NoCalibration = FALSE]]

\* NanoVNAWelcome.open_calibration_wizard
open_calibration_wizard(cal) == [cal EXCEPT !.Kits = FALSE, !.NoCalibration = FALSE]

\* NanoVNAWelcome._apply_selected_kit_calibration
apply_selected_kit_calibration(cal, groups, kit_name) ==
    IF \E i \in 1..Len(groups) : groups[i].kit_name = kit_name
    THEN [cal EXCEPT !.Name = WithId(kit_name, FirstNamed(groups, kit_name).id),
                     !.Method = FirstNamed(groups, kit_name).method,
                     !.Kits = TRUE,
                     !.NoCalibration = FALSE]
    ELSE cal

\* graphics_clicked writing NoCalibration without clearing Kits
graphics_clicked_keeps_kits(cal, groups, current_selection) ==
    IF current_selection # <<>> /\ Head(current_selection) # "None"
    THEN apply_selected_kit_calibration(cal, groups, current_selection)
    ELSE [cal EXCEPT !.NoCalibration = TRUE]

\* NanoVNAWelcome.graphics_clicked: current_selection is the dropdown's text
graphics_clicked(cal, groups, current_selection) ==
    IF current_selection # <<>> /\ Head(current_selection) # "None"
    THEN apply_selected_kit_calibration(cal, groups, current_selection)
    ELSE [cal EXCEPT !.Kits = FALSE, !.NoCalibration = TRUE]

kitsframe ==
    <<fs, arg, out, dut, vna_device, freqs, s11, s21, sweep_button_enabled,
      sweep_progress_visible, reconnect_button_enabled, reset_timer, sweep_result, nsweeps,
      methods, history, dialog, latex_env, sweep_options, sweep_config, main_config, exporter>>

\* The names the kit lists show: the non-empty kit_name values
Listed(groups) == {groups[i].kit_name : i \in 1..Len(groups)} \ {<<>>}

\* Select Kit dialog: a listed kit is chosen and Select pressed
select_kit_clicked ==
    /\ \E name \in Listed(kit_groups) : settings' = select_kit(settings, kit_groups, name)
    /\ UNCHANGED kit_groups
    /\ op' = "select_kit"
    /\ UNCHANGED kitsframe

\* Delete Kits dialog: some listed kits are chosen, Delete pressed and confirmed
delete_selected_clicked ==
    /\ \E selected_names \in (SUBSET Listed(kit_groups)) \ {{}} :
         /\ settings' = delete_selected(settings, kit_groups, selected_names).cal
         /\ kit_groups' = delete_selected(settings, kit_groups, selected_names).groups
    /\ op' = "delete_selected"
    /\ UNCHANGED kitsframe

\* Save Calibration dialog: a name no kit has yet is entered and saved
save_calibration_clicked ==
    /\ Len(kit_groups) < MaxKits
    /\ \E name \in KitNames \ Listed(kit_groups), selected_method \in KitMethods, current_datetime \in KitDates :
         /\ settings' = save_calibration_dialog(settings, kit_groups, name, selected_method, current_datetime).cal
         /\ kit_groups' = save_calibration_dialog(settings, kit_groups, name, selected_method, current_datetime).groups
    /\ op' = "save_calibration_dialog"
    /\ UNCHANGED kitsframe

\* Welcome window: Calibration Wizard pressed
open_calibration_wizard_clicked ==
    /\ settings' = open_calibration_wizard(settings)
    /\ UNCHANGED kit_groups
    /\ op' = "open_calibration_wizard"
    /\ UNCHANGED kitsframe

\* Welcome window: Graphics pressed, with a kit or "None" in the dropdown
graphics_clicked_with_kit ==
    /\ \E current_selection \in KitNames :
         settings' = graphics_clicked(settings, kit_groups, current_selection)
    /\ UNCHANGED kit_groups
    /\ op' = "graphics_clicked"
    /\ UNCHANGED kitsframe

graphics_clicked_without_kit ==
    /\ settings' = graphics_clicked(settings, kit_groups, <<"None">>)
    /\ UNCHANGED kit_groups
    /\ op' = "graphics_clicked"
    /\ UNCHANGED kitsframe

\* The kit stores the program leaves: distinct names, ids 1..n in group order
KitOrders(n) == {names \in [1..n -> KitNames] : \A i, j \in 1..n : names[i] = names[j] => i = j}

StoredKitsOf(n) ==
    {[i \in 1..n |-> [kit_name |-> names[i], method |-> ms[i], id |-> i, DateTime_Kits |-> ds[i]]] :
        names \in KitOrders(n), ms \in [1..n -> KitMethods], ds \in [1..n -> KitDates]}

StoredKits == UNION {StoredKitsOf(n) : n \in 0..MaxKits}

\* The kit in use, when one is: the stored group the name and id point at
DescribesStoredKit(cal, groups) ==
    \E i \in 1..Len(groups) :
        /\ cal.Name = WithId(groups[i].kit_name, groups[i].id)
        /\ groups[i].id = i
        /\ cal.Method = groups[i].method

\* The [Calibration] sections a kit store is found with: a kit of the store
\* in use, a wizard calibration in use, or no calibration
CalibrationsFor(groups) ==
    {select_kit(DefaultSettings, groups, name) : name \in Listed(groups)}
    \cup {[DefaultSettings EXCEPT !.Method = m, !.NoCalibration = n] : m \in KitMethods, n \in BOOLEAN}

InitKits ==
    /\ fs = [p \in FileIds |-> AbsentNet]
    /\ op = "none"
    /\ arg = NoArg
    /\ out = NoOut
    /\ dut = NoDut
    /\ vna_device = "none"
    /\ freqs = <<>> /\ s11 = <<>> /\ s21 = <<>>
    /\ sweep_button_enabled = TRUE
    /\ sweep_progress_visible = FALSE
    /\ reconnect_button_enabled = TRUE
    /\ reset_timer = FALSE
    /\ sweep_result = "none"
    /\ nsweeps = 0
    /\ methods = NoMethods
    /\ history = NoHistory
    /\ dialog = NoDialog
    /\ latex_env = "None"
    /\ sweep_options = NoSweepOptions
    /\ sweep_config = NoSweepConfig
    /\ main_config = DefaultMainConfig
    /\ exporter = NoExporter
    /\ kit_groups \in StoredKits
    /\ settings \in CalibrationsFor(kit_groups)

NextKits ==
    \/ select_kit_clicked
    \/ delete_selected_clicked
    \/ save_calibration_clicked
    \/ open_calibration_wizard_clicked
    \/ graphics_clicked_with_kit
    \/ graphics_clicked_without_kit

SpecKits == InitKits /\ [][NextKits]_vars

----------------------------------------------------------------------------
\* C25: from a configuration where Calibration/Kits and
\* Calibration/NoCalibration are not both true, no sequence of select kit,
\* delete kits (with handle_deleted_current_kit and handle_all_kits_deleted),
\* save calibration, open calibration wizard and open graphics with or
\* without a kit makes both true
C25_FlagsNeverBothTrue == ~(settings.Kits /\ settings.NoCalibration)

\* Delete Kits removed every kit and left no calibration in use
C25_Witness ==
    /\ op = "delete_selected"
    /\ kit_groups = <<>>
    /\ settings.NoCalibration
    /\ ~settings.Kits

----------------------------------------------------------------------------
\* C26: whenever Calibration/Kits is true, Calibration/Name is
\* "<kit_name>_<id>" of a stored Kit_<id> group and Calibration/Method is that
\* kit's stored method; select kit and delete kits keep it so
KitInUseConsistent == settings.Kits => DescribesStoredKit(settings, kit_groups)

C26_SelectAndDeleteKeepKitConsistent ==
    [][((select_kit_clicked \/ delete_selected_clicked) /\ KitInUseConsistent) => KitInUseConsistent']_vars

----------------------------------------------------------------------------
\* C27: after delete_selected the remaining kits are stored as Kit_1..Kit_n
\* with ids 1..n in their previous id order, each with its own kit_name, its
\* own method and its own DateTime_Kits
NamedIn(kit, names) == kit.kit_name \in names

RenumberedOnly(before, after) ==
    LET names == {after[i].kit_name : i \in 1..Len(after)}
        kept == SelectSeq(SortById(before), LAMBDA kit : NamedIn(kit, names))
    IN  /\ Len(after) = Len(kept)
        /\ \A i \in 1..Len(kept) : after[i] = [kept[i] EXCEPT !.id = i]

C27_DeleteKeepsRemainingKits ==
    [][delete_selected_clicked => RenumberedOnly(kit_groups, kit_groups')]_vars

----------------------------------------------------------------------------
\* C28: run_sweep replaces self.freqs, self.s11 and self.s21 together and
\* only when the three new vectors have equal length, and leaves all three as
\* they were otherwise; so the stored vectors have equal length after every
\* sweep, stored, rejected or failed, when they had before
StoredEqualLength == Len(freqs) = Len(s11) /\ Len(freqs) = Len(s21)

SweepStored == sweep_result \in {"done", "error_after_commit"}

C28_CommitWholeAndConsistent ==
    [][StoredEqualLength =>
        /\ StoredEqualLength'
        /\ (op' = "run_sweep" /\ ~SweepStored') => UNCHANGED <<freqs, s11, s21>>
        /\ (op' = "run_sweep" /\ SweepStored' /\ nsweeps' # nsweeps) =>
               (freqs' = FreqVector(Len(out'.s11)) /\ s11' = out'.s11 /\ s21' = out'.s21)]_vars

\* The device handed back vectors of different lengths while data of an
\* earlier sweep was stored: the sweep was refused and the earlier data kept
C28_Witness ==
    /\ op = "run_sweep"
    /\ sweep_result = "inconsistent"
    /\ out.ok
    /\ Len(out.s11) # Len(out.s21)
    /\ Len(freqs) = 2 /\ Len(s11) = 2 /\ Len(s21) = 2

----------------------------------------------------------------------------
\* The Qt event loop delivers a pending single-shot timer
SpecSweepLive == SpecSweep /\ WF_vars(reset_sweep_ui_timeout)

SweepUiBusy == ~sweep_button_enabled \/ ~reconnect_button_enabled \/ sweep_progress_visible

SweepUiIdle == sweep_button_enabled /\ reconnect_button_enabled /\ ~sweep_progress_visible

\* C29: every run_sweep that disables the sweep button and the reconnect
\* button re-enables them: before it returns when the parameters are
\* rejected, the data is inconsistent or an exception is raised, and when
\* the 700 ms timer fires after a success; the button never stays disabled
\* with the progress bar shown
C29_SweepButtonReenabled == SweepUiBusy ~> SweepUiIdle

\* A sweep succeeded, its timer has fired and the buttons are back
C29_Witness ==
    /\ op = "run_sweep"
    /\ sweep_result = "done"
    /\ ~reset_timer
    /\ SweepUiIdle

====
